---- MODULE Spec2Model ----
(***************************************************************************)
(* go-resume-builder: the icon asset pipeline (utils), the template-1      *)
(* composer (templates) and the single-file composer (main.go).            *)
(*                                                                         *)
(* Strings are sequences of one-character strings, so that trimming,       *)
(* formatting and joining are computed and not assumed.                    *)
(***************************************************************************)
EXTENDS Integers, Sequences, FiniteSets, TLC

VARIABLES
  prog,     \* which entry point runs: "icons", "template" (templates.BuildTemplate1) or "page" (main.go)
  cfg,      \* utils.Config of the template program (Colors, Icons, Sections)
  content,  \* utils.Content of the template program
  tmplName, \* the -template flag handed to generatePDF
  resume,   \* main.go: the Resume (PersonalInfo, the ordered input section list)
  fs,       \* the filesystem: source vectors, output directory, cached rasters
  calls,    \* the EnsureIconExists calls since the last external change (newest last, at most two)
  firstOK,  \* history: per cache path, the content written by the first successful conversion
  edits,    \* number of external filesystem changes so far
  pc,       \* "ready" before a composition pass, "done" after it
  out,      \* what the pass handed to the backend: rows, returned error, call history
  unit,     \* a call of one function of the style resolver or of the raster arithmetic: name, arguments, result
  procs     \* concurrent processes inside EnsureColoredIconExists: each one's position and result

vars == <<prog, cfg, content, tmplName, resume, fs, calls, firstOK, edits, pc, out, unit, procs>>

-----------------------------------------------------------------------------
(* Bounds of the model *)

MaxEdits == 2

-----------------------------------------------------------------------------
(* Strings *)

EmptyStr == <<>>

HexDigits == {"0","1","2","3","4","5","6","7","8","9",
              "a","b","c","d","e","f","A","B","C","D","E","F"}

\* strings.TrimPrefix(s, "#")
TrimPrefix(s, c) == IF Len(s) > 0 /\ s[1] = c THEN Tail(s) ELSE s

RECURSIVE Digits(_)
\* the decimal digits of n >= 0, as fmt's %d prints them
Digits(n) ==
  LET d == <<"0","1","2","3","4","5","6","7","8","9">>[(n % 10) + 1]
  IN IF n < 10 THEN <<d>> ELSE Digits(n \div 10) \o <<d>>

\* fmt.Sprintf("%d", n)
FormatInt(n) == IF n < 0 THEN <<"-">> \o Digits(0 - n) ELSE Digits(n)

\* filepath.Join(dir, name) for clean relative operands
PathJoin(dir, name) == IF dir = EmptyStr THEN name ELSE dir \o <<"/">> \o name

RECURSIVE StringsJoin(_, _)
\* strings.Join(items, sep)
StringsJoin(items, sep) ==
  IF Len(items) = 0 THEN EmptyStr
  ELSE IF Len(items) = 1 THEN items[1]
  ELSE items[1] \o sep \o StringsJoin(Tail(items), sep)

-----------------------------------------------------------------------------
(* Names used by the scenarios *)

S_icons    == <<"i","c","o","n","s">>
S_solid    == <<"s","o","l","i","d">>
S_brands   == <<"b","r","a","n","d","s">>
S_envelope == <<"e","n","v">>
S_phone    == <<"t","e","l">>
S_email    == <<"e","m","a","i","l">>
S_tel      == <<"p","h","o","n","e">>
S_fax      == <<"f","a","x">>
S_primary  == <<"p","r","i","m","a","r","y">>
S_accent   == <<"a","c","c","e","n","t">>
S_2C3E50   == <<"2","C","3","E","5","0">>
S_h2C3E50  == <<"#","2","C","3","E","5","0">>
S_h34495E  == <<"#","3","4","4","9","5","E">>
S_hFFF     == <<"#","F","F","F">>
S_svgExt   == <<".","s","v","g">>
S_pxpng    == <<"p","x",".","p","n","g">>
S_000000   == <<"0","0","0","0","0","0">>

-----------------------------------------------------------------------------
(* The filesystem *)

\* a source vector file: can it be read, does it parse, its view box, its revision
Svg(r, p, w, h, v) == [readable |-> r, wellformed |-> p, W |-> w, H |-> h, ver |-> v]

SvgGood   == Svg(TRUE, TRUE, 512, 512, 1)
SvgEdited == Svg(TRUE, TRUE, 512, 448, 2)
SvgFlat   == Svg(TRUE, TRUE, 640, 10, 1)
SvgBad    == Svg(TRUE, FALSE, 0, 0, 1)
SvgLocked == Svg(FALSE, TRUE, 512, 512, 1)
SvgKinds  == {SvgGood, SvgEdited, SvgFlat, SvgBad, SvgLocked}

SvgPathOf(dir, stem) == PathJoin(dir, stem \o S_svgExt)

Op(o, a) == [op |-> o, arg |-> a]

FileExists(files, p) == p \in DOMAIN files

-----------------------------------------------------------------------------
(* utils: the icon asset pipeline, as functions of the filesystem f.       *)
(* Each returns the filesystem it leaves and the operations it performed.  *)

\* convertSVGToPNG: the raster dimensions; int() truncates the quotient
RasterDims(W, H, maxSize) ==
  IF W >= H
    THEN [w |-> maxSize, h |-> (maxSize * H) \div W]
    ELSE [w |-> (maxSize * W) \div H, h |-> maxSize]

\* convertSVGToPNG: the colour written into the markup ("" when none is applied)
AppliedFill(colorHex) ==
  IF colorHex # EmptyStr /\ Len(TrimPrefix(colorHex, "#")) = 6
    THEN TrimPrefix(colorHex, "#")
    ELSE EmptyStr

\* image/png refuses an image without pixels
EncodeFails(d) == d.w <= 0 \/ d.h <= 0

RasterFile(done, svgPath, src, fill, d) ==
  [complete |-> done, from |-> svgPath, ver |-> src.ver, fill |-> fill,
   w |-> d.w, h |-> d.h]

convertSVGToPNG(f, svgPath, pngPath, maxSize, colorHex) ==
  LET src  == f.src[svgPath]
      d    == RasterDims(src.W, src.H, maxSize)
      fill == AppliedFill(colorHex)
      oRead   == <<Op("read", svgPath)>>
      oParse  == oRead \o <<Op("parse", svgPath)>>
      oRaster == oParse \o <<Op("rasterize", svgPath)>>
      oCreate == oRaster \o <<Op("create", pngPath)>>
      oEncode == oCreate \o <<Op("encode", pngPath)>>
  IN IF ~src.readable
       THEN [err |-> "read", fs |-> f, ops |-> oRead]
     ELSE IF ~src.wellformed
       THEN [err |-> "parse", fs |-> f, ops |-> oParse]
     ELSE IF ~(f.outdir /\ f.writable)
       THEN [err |-> "create", fs |-> f, ops |-> oCreate]
     ELSE IF EncodeFails(d)
       THEN [err |-> "encode",
             fs  |-> [f EXCEPT !.cache =
                        (pngPath :> RasterFile(FALSE, svgPath, src, fill, d)) @@ @],
             ops |-> oEncode]
     ELSE [err |-> "nil",
           fs  |-> [f EXCEPT !.cache =
                      (pngPath :> RasterFile(TRUE, svgPath, src, fill, d)) @@ @],
           ops |-> oEncode]

\* the cache file name both EnsureColoredIconExists and convertColoredIcon format
PngPath(outputDir, iconFileName, colorHex, size) ==
  LET trimmed     == TrimPrefix(colorHex, "#")
      colorSuffix == IF trimmed = EmptyStr THEN S_000000 ELSE trimmed
  IN PathJoin(outputDir,
              iconFileName \o <<"_">> \o colorSuffix \o <<"_">> \o FormatInt(size) \o S_pxpng)

RECURSIVE SearchFrom_Fallback(_, _, _, _, _, _, _)
\* a search that goes on to the next directory when the conversion of a match fails
SearchFrom_Fallback(f, i, iconName, svgPaths, outputDir, size, colorHex) ==
  IF i > Len(svgPaths)
    THEN [err |-> "notfound", fs |-> f, ops |-> <<>>]
    ELSE LET fullSvgPath == SvgPathOf(svgPaths[i], iconName)
             st   == <<Op("statsrc", fullSvgPath)>>
             next == SearchFrom_Fallback(f, i + 1, iconName, svgPaths, outputDir, size, colorHex)
         IN IF FileExists(f.src, fullSvgPath)
              THEN LET r == convertSVGToPNG(f, fullSvgPath,
                                PngPath(outputDir, iconName, colorHex, size), size, colorHex)
                   IN IF r.err = "nil" \/ i = Len(svgPaths)
                        THEN [r EXCEPT !.ops = st \o @]
                        ELSE LET n == SearchFrom_Fallback(r.fs, i + 1, iconName, svgPaths,
                                                          outputDir, size, colorHex)
                             IN [n EXCEPT !.ops = st \o r.ops \o @]
              ELSE [next EXCEPT !.ops = st \o @]

RECURSIVE SearchFrom(_, _, _, _, _, _, _)
\* convertColoredIcon: the loop over svgPaths from index i
SearchFrom(f, i, iconName, svgPaths, outputDir, size, colorHex) ==
  IF i > Len(svgPaths)
    THEN [err |-> "notfound", fs |-> f, ops |-> <<>>]
    ELSE LET fullSvgPath == SvgPathOf(svgPaths[i], iconName)
             st == <<Op("statsrc", fullSvgPath)>>
         IN IF FileExists(f.src, fullSvgPath)
              THEN LET r == convertSVGToPNG(f, fullSvgPath,
                                PngPath(outputDir, iconName, colorHex, size), size, colorHex)
                   IN [r EXCEPT !.ops = st \o @]
              ELSE LET r == SearchFrom(f, i + 1, iconName, svgPaths, outputDir, size, colorHex)
                   IN [r EXCEPT !.ops = st \o @]

\* os.MkdirAll(outputDir), its error ignored
MkdirAll(f) == [f EXCEPT !.outdir = @ \/ f.writable]

convertColoredIcon(f, iconName, svgPaths, outputDir, size, colorHex) ==
  LET r == SearchFrom(MkdirAll(f), 1, iconName, svgPaths, outputDir, size, colorHex)
  IN [r EXCEPT !.ops = <<Op("mkdir", outputDir)>> \o @]

\* a pipeline without the cache check: every call converts
EnsureColoredIconExists_NoCache(f, iconName, iconConfig, colorHex) ==
  IF iconName = EmptyStr \/ iconName \notin DOMAIN iconConfig.Mappings
    THEN [path |-> EmptyStr, fs |-> f, ops |-> <<>>, err |-> "none"]
    ELSE LET iconFileName == iconConfig.Mappings[iconName]
             pngPath == PngPath(iconConfig.OutputDir, iconFileName, colorHex,
                                iconConfig.DefaultSize)
             r == convertColoredIcon(f, iconFileName, iconConfig.SVGPaths,
                               iconConfig.OutputDir, iconConfig.DefaultSize, colorHex)
         IN [path |-> IF r.err # "nil" THEN EmptyStr ELSE pngPath,
             fs   |-> r.fs,
             ops  |-> <<Op("stat", pngPath)>> \o r.ops, err |-> r.err]

\* a pipeline that reconverts on a hit when the source's revision has moved on
EnsureColoredIconExists_Refresh(f, iconName, iconConfig, colorHex) ==
  LET r == EnsureColoredIconExists_NoCache(f, iconName, iconConfig, colorHex)
      pngPath == PngPath(iconConfig.OutputDir, iconConfig.Mappings[iconName], colorHex,
                         iconConfig.DefaultSize)
  IN IF iconName = EmptyStr \/ iconName \notin DOMAIN iconConfig.Mappings
       THEN r
     ELSE IF /\ FileExists(f.cache, pngPath)
             /\ (FileExists(f.src, f.cache[pngPath].from)
                   => f.src[f.cache[pngPath].from].ver = f.cache[pngPath].ver)
       THEN [path |-> pngPath, fs |-> f, ops |-> <<Op("stat", pngPath)>>, err |-> "none"]
     ELSE r

EnsureColoredIconExists(f, iconName, iconConfig, colorHex) ==
  IF iconName = EmptyStr \/ iconName \notin DOMAIN iconConfig.Mappings
    THEN [path |-> EmptyStr, fs |-> f, ops |-> <<>>, err |-> "none"]
    ELSE LET iconFileName == iconConfig.Mappings[iconName]
             pngPath == PngPath(iconConfig.OutputDir, iconFileName, colorHex,
                                iconConfig.DefaultSize)
             st == <<Op("stat", pngPath)>>
             Converted(r) == [path |-> IF r.err # "nil" THEN EmptyStr ELSE pngPath,
                              fs   |-> r.fs,
                              ops  |-> st \o r.ops, err |-> r.err]
         IN IF FileExists(f.cache, pngPath)
              THEN [path |-> pngPath, fs |-> f, ops |-> st, err |-> "none"]
              ELSE Converted(convertColoredIcon(f, iconFileName, iconConfig.SVGPaths,
                               iconConfig.OutputDir, iconConfig.DefaultSize, colorHex))

\* EnsureIconExists: the colour reference resolved against the palette, one level
IconColorHex(iconConfig, colors) ==
  IF iconConfig.Color # EmptyStr
    THEN IF iconConfig.Color \in DOMAIN colors
           THEN colors[iconConfig.Color]
           ELSE iconConfig.Color
    ELSE EmptyStr

\* a pipeline that prepares the output directory before it looks the key up
EnsureIconExists_Eager(f, iconName, iconConfig, colors) ==
  LET Made(r) == [r EXCEPT !.ops = <<Op("mkdir", iconConfig.OutputDir)>> \o @]
  IN Made(EnsureColoredIconExists(MkdirAll(f), iconName, iconConfig,
                                  IconColorHex(iconConfig, colors)))

EnsureIconExists(f, iconName, iconConfig, colors) ==
  EnsureColoredIconExists(f, iconName, iconConfig, IconColorHex(iconConfig, colors))

-----------------------------------------------------------------------------
(* The icon pipeline as a state machine: calls by one process, interleaved *)
(* with external changes to the source directories.                        *)

Palette == (S_primary :> S_h2C3E50)

\* palette key, literal hex with and without '#', short hex, unknown name, none
ColorRefs == {S_primary, S_h34495E, S_2C3E50, S_hFFF, S_accent, EmptyStr}

IconSizes == {32, 64}

IconMappings == (S_email :> S_envelope) @@ (S_tel :> S_phone)

\* a mapped key, an unmapped key and the empty key
IconKeys == {S_email, S_fax, EmptyStr}

SearchDirs == <<S_solid, S_brands>>

IconCfg(color, size) ==
  [SVGPaths |-> SearchDirs, OutputDir |-> S_icons, DefaultSize |-> size,
   Color |-> color, Mappings |-> IconMappings]

NoSections == [k \in {} |-> 0]

\* every colour reference at the first size, one of them at each size
IconCfgs ==
  { IconCfg(c, 32) : c \in ColorRefs } \cup { IconCfg(S_primary, s) : s \in IconSizes }

IconOnlyConfigs ==
  { [Colors |-> Palette, Icons |-> ic, Sections |-> NoSections,
     SectionTemplates |-> NoSections, Fonts |-> NoSections, Spacing |-> NoSections] :
      ic \in IconCfgs }

NoContent == [Personal |-> [Name |-> EmptyStr, GitHub |-> EmptyStr], ContactFields |-> <<>>,
              Sections |-> NoSections]

NoResume == [PersonalInfo |-> [Name |-> EmptyStr], Sections |-> <<>>]

NoFiles == [p \in {} |-> 0]

EmptyFs == [src |-> NoFiles, outdir |-> FALSE, writable |-> TRUE, cache |-> NoFiles]

\* nothing handed to the backend yet; pre is the filesystem the pass started
\* from, given the inputs it was called with
NoOut == [rows |-> <<>>, err |-> "nil", icons |-> <<>>, rendered |-> <<>>, pre |-> EmptyFs,
          given |-> <<>>]

\* no concurrent processes
NoProcs == <<>>

\* no function call under observation
NoUnit == [fn |-> "", args |-> <<>>, ret |-> <<>>]

\* the source trees a run starts from: the phone icon is a brand icon
InitialSources ==
  { s @@ (SvgPathOf(S_brands, S_phone) :> SvgGood) :
      s \in { [p \in {} |-> SvgGood],
              (SvgPathOf(S_solid, S_envelope) :> SvgGood),
              (SvgPathOf(S_brands, S_envelope) :> SvgGood),
              (SvgPathOf(S_solid, S_envelope) :> SvgFlat)
                 @@ (SvgPathOf(S_brands, S_envelope) :> SvgGood) } }

Init ==
  /\ prog = "icons"
  /\ cfg \in IconOnlyConfigs
  /\ content = NoContent
  /\ tmplName = EmptyStr
  /\ resume = NoResume
  /\ \E s \in InitialSources, w \in BOOLEAN :
       fs = [src |-> s, outdir |-> FALSE, writable |-> w, cache |-> NoFiles]
  /\ calls = <<>>
  /\ firstOK = NoFiles
  /\ edits = 0
  /\ pc = "ready"
  /\ out = NoOut
  /\ unit = NoUnit
  /\ procs = NoProcs

Succeeded(r) == r.path # EmptyStr /\ Len(r.ops) > 1

\* what is recorded of a call: its argument, its result, what it did, and
\* whether a file was at the request's cache path when it started
Call(key, f, r) ==
  [key |-> key, path |-> r.path, ops |-> r.ops,
   existed |-> /\ key \in DOMAIN cfg.Icons.Mappings
               /\ FileExists(f.cache,
                     PngPath(cfg.Icons.OutputDir, cfg.Icons.Mappings[key],
                             IconColorHex(cfg.Icons, cfg.Colors), cfg.Icons.DefaultSize)),
   kept |-> r.fs = f]

\* one call of EnsureIconExists(key, &cfg.Icons, cfg.Colors)
EnsureIcon(key) ==
  LET r == EnsureIconExists(fs, key, cfg.Icons, cfg.Colors)
  IN /\ fs' = r.fs
     /\ calls' = IF Len(calls) = 0 THEN <<Call(key, fs, r)>>
                 ELSE <<calls[Len(calls)], Call(key, fs, r)>>
     /\ firstOK' = IF Succeeded(r) /\ r.path \notin DOMAIN firstOK
                     THEN (r.path :> r.fs.cache[r.path]) @@ firstOK
                     ELSE firstOK
     /\ UNCHANGED <<prog, cfg, content, tmplName, resume, edits, pc, out, unit, procs>>

\* an external writer creates or replaces the envelope source in a directory
WriteSource(i, svg) ==
  /\ edits < MaxEdits
  /\ fs' = [fs EXCEPT !.src = (SvgPathOf(SearchDirs[i], S_envelope) :> svg) @@ @]
  /\ calls' = <<>>
  /\ edits' = edits + 1
  /\ UNCHANGED <<prog, cfg, content, tmplName, resume, firstOK, pc, out, unit, procs>>

Next ==
  \/ \E key \in IconKeys : EnsureIcon(key)
  \/ \E i \in 1..Len(SearchDirs), svg \in SvgKinds : WriteSource(i, svg)

Spec == Init /\ [][Next]_vars

-----------------------------------------------------------------------------
(* Properties of the icon pipeline (specification Spec) *)

HasOp(ops, o) == \E i \in 1..Len(ops) : ops[i].op = o

OpsOf(ops, kinds) == SelectSeq(ops, LAMBDA o : o.op \in kinds)

ConversionWork == {"statsrc", "read", "parse", "rasterize", "create", "encode"}

Newest == calls[Len(calls)]

\* two consecutive calls with the same argument, no external change between them
Repeated == Len(calls) = 2 /\ calls[1].key = calls[2].key

Mapped(key) == key # EmptyStr /\ key \in DOMAIN cfg.Icons.Mappings

\* the cache path of a request for a mapped key under the run's configuration
RequestPath(key) ==
  PngPath(cfg.Icons.OutputDir, cfg.Icons.Mappings[key],
          IconColorHex(cfg.Icons, cfg.Colors), cfg.Icons.DefaultSize)

\* C1 as stated: two consecutive EnsureIconExists calls with identical arguments
\* return the identical path and the second one does no source search, parse,
\* rasterize or file write, for any key and configuration.
C1_AnyRepeatIsHit ==
  Repeated =>
    /\ calls[2].path = calls[1].path
    /\ OpsOf(calls[2].ops, ConversionWork) = <<>>

\* C1 amended: when the first of two consecutive identical calls returns a path,
\* the second returns the identical path and is a cache hit: it only stats the
\* cache path.
C1_RepeatAfterSuccessIsHit ==
  (Repeated /\ calls[1].path # EmptyStr) =>
    /\ calls[2].path = calls[1].path
    /\ calls[2].ops = <<Op("stat", calls[1].path)>>

\* the first call converted the icon and the second one was served from the cache
C1_Witness ==
  /\ Repeated
  /\ HasOp(calls[1].ops, "encode")
  /\ calls[1].path # EmptyStr
  /\ calls[2].path = calls[1].path

\* C3: a call that finds a file at its cache path returns that path, performs
\* nothing but the stat of it and leaves the filesystem as it was; and every cache
\* file for which a conversion succeeded still holds what the first such
\* conversion wrote, whatever source edits and calls came later.
C3_CacheNeverReconverts ==
  /\ \A i \in 1..Len(calls) :
       calls[i].existed =>
         /\ calls[i].path = RequestPath(calls[i].key)
         /\ calls[i].ops = <<Op("stat", calls[i].path)>>
         /\ calls[i].kept
  /\ \A p \in DOMAIN firstOK :
       FileExists(fs.cache, p) /\ fs.cache[p] = firstOK[p]

\* a cache hit on a raster whose source has been edited since it was converted
C3_Witness ==
  /\ Len(calls) > 0
  /\ Newest.existed
  /\ Newest.path \in DOMAIN firstOK
  /\ FileExists(fs.src, fs.cache[Newest.path].from)
  /\ fs.src[fs.cache[Newest.path].from].ver # fs.cache[Newest.path].ver

IsSixHex(s) == Len(s) = 6 /\ \A i \in 1..6 : s[i] \in HexDigits

\* p is <outputDir>/<stem>_<six hex digits>_<size>px.png
IsCacheName(p, outputDir, stem, size) ==
  LET pre == outputDir \o <<"/">> \o stem \o <<"_">>
      suf == <<"_">> \o FormatInt(size) \o S_pxpng
  IN /\ Len(p) = Len(pre) + 6 + Len(suf)
     /\ SubSeq(p, 1, Len(pre)) = pre
     /\ IsSixHex(SubSeq(p, Len(pre) + 1, Len(pre) + 6))
     /\ SubSeq(p, Len(pre) + 7, Len(p)) = suf

\* C9: every path EnsureIconExists returns or writes is
\* <outputDir>/<stem>_<color>_<size>px.png with <color> six hexadecimal digits,
\* for every configured colour reference.
C9_CacheFileNaming ==
  /\ \A i \in 1..Len(calls) :
       calls[i].path # EmptyStr =>
         IsCacheName(calls[i].path, cfg.Icons.OutputDir,
                     cfg.Icons.Mappings[calls[i].key], cfg.Icons.DefaultSize)
  /\ \A p \in DOMAIN fs.cache :
       \E key \in DOMAIN cfg.Icons.Mappings :
         IsCacheName(p, cfg.Icons.OutputDir, cfg.Icons.Mappings[key],
                     cfg.Icons.DefaultSize)

\* the directories of the search list that hold <stem>.svg
Holding(stem) ==
  { i \in 1..Len(cfg.Icons.SVGPaths) :
      FileExists(fs.src, SvgPathOf(cfg.Icons.SVGPaths[i], stem)) }

Lowest(S) == CHOOSE i \in S : \A j \in S : i <= j

\* C10: on a cache miss the directories are examined in list order up to the
\* first one holding <stem>.svg, the conversion reads that file and nothing from
\* a later directory, also when it fails; when no directory holds the file the
\* call returns no icon and no file is at the cache path.
C10_FirstMatchSearch ==
  \A n \in 1..Len(calls) :
    LET c == calls[n] IN
    (Mapped(c.key) /\ ~c.existed) =>
      LET stem == cfg.Icons.Mappings[c.key]
          dirs == cfg.Icons.SVGPaths
          hold == Holding(stem)
          last == IF hold = {} THEN Len(dirs) ELSE Lowest(hold)
      IN /\ OpsOf(c.ops, {"statsrc"}) =
              [i \in 1..last |-> Op("statsrc", SvgPathOf(dirs[i], stem))]
         /\ hold # {} =>
              /\ OpsOf(c.ops, {"read"}) = <<Op("read", SvgPathOf(dirs[last], stem))>>
              /\ \A i \in 1..Len(c.ops) :
                   c.ops[i].op \in {"read", "parse", "rasterize"} =>
                     c.ops[i].arg = SvgPathOf(dirs[last], stem)
         /\ hold = {} =>
              /\ c.path = EmptyStr
              /\ ~HasOp(c.ops, "create")
              /\ ~FileExists(fs.cache, RequestPath(c.key))

\* a miss whose first match fails to convert while a later directory holds the icon
C10_Witness ==
  /\ Len(calls) > 0
  /\ Mapped(Newest.key) /\ ~Newest.existed
  /\ Cardinality(Holding(cfg.Icons.Mappings[Newest.key])) = 2
  /\ HasOp(Newest.ops, "read")
  /\ Newest.path = EmptyStr

\* C11: a call whose key is empty or is no key of the icon mapping returns the
\* empty path, performs no filesystem operation at all (no stat of a cache path,
\* no creation of the output directory, no source search, no file written) and
\* leaves the filesystem as it found it.
C11_MissingIconMapping ==
  \A i \in 1..Len(calls) :
    ~Mapped(calls[i].key) =>
      /\ calls[i].path = EmptyStr
      /\ calls[i].ops = <<>>
      /\ calls[i].kept
      /\ ~calls[i].existed

\* a call with the empty key followed by a call with an unmapped key, on a
\* filesystem whose output directory does not exist yet
C11_Witness ==
  /\ Len(calls) = 2
  /\ calls[1].key = EmptyStr
  /\ calls[2].key = S_fax /\ S_fax \notin DOMAIN cfg.Icons.Mappings
  /\ calls[2].path = EmptyStr
  /\ ~fs.outdir /\ fs.writable

\* C20: every path a call returns names a raster that was encoded completely,
\* and no file without content is left at a cache path for a later call to
\* report as a hit, also after a conversion that failed once the file existed.
C20_NoPoisonedEntry ==
  /\ \A i \in 1..Len(calls) :
       calls[i].path # EmptyStr =>
         /\ FileExists(fs.cache, calls[i].path)
         /\ fs.cache[calls[i].path].complete
  /\ \A p \in DOMAIN fs.cache : fs.cache[p].complete

-----------------------------------------------------------------------------
(* utils: the style resolver *)

\* a digit value that knows the decimal digits and the lower-case letters only
HexValue_NoUpper(c) ==
  CASE c \in {"0","1","2","3","4","5","6","7","8","9"} ->
         (CHOOSE n \in 0..9 : <<"0","1","2","3","4","5","6","7","8","9">>[n + 1] = c)
    [] c \in {"a","b","c","d","e","f"} ->
         (CHOOSE n \in 10..15 : <<"a","b","c","d","e","f">>[n - 9] = c)
    [] OTHER -> 0

\* parseInt: the value one character adds
HexValue(c) ==
  CASE c \in {"0","1","2","3","4","5","6","7","8","9"} ->
         (CHOOSE n \in 0..9 : <<"0","1","2","3","4","5","6","7","8","9">>[n + 1] = c)
    [] c \in {"a","b","c","d","e","f"} ->
         (CHOOSE n \in 10..15 : <<"a","b","c","d","e","f">>[n - 9] = c)
    [] c \in {"A","B","C","D","E","F"} ->
         (CHOOSE n \in 10..15 : <<"A","B","C","D","E","F">>[n - 9] = c)
    [] OTHER -> 0

RECURSIVE parseIntFrom(_, _)
\* parseInt: the loop with the accumulator, a character outside the hex digits adds nothing
parseIntFrom(hex, result) ==
  IF hex = <<>> THEN result
  ELSE parseIntFrom(Tail(hex), result * 16 + HexValue(Head(hex)))

parseInt(hex) == parseIntFrom(hex, 0)

Color(r, g, b) == [Red |-> r, Green |-> g, Blue |-> b]

HexToColor(hex) ==
  LET h == TrimPrefix(hex, "#")
  IN IF Len(h) # 6 THEN Color(0, 0, 0)
     ELSE Color(parseInt(SubSeq(h, 1, 2)), parseInt(SubSeq(h, 3, 4)), parseInt(SubSeq(h, 5, 6)))

\* a resolver that follows a palette entry whose value is a palette key
ResolveColor_Chained(colorName, colors) ==
  IF colorName \in DOMAIN colors
    THEN IF colors[colorName] \in DOMAIN colors
           THEN HexToColor(colors[colors[colorName]])
           ELSE HexToColor(colors[colorName])
    ELSE HexToColor(colorName)

ResolveColor(colorName, colors) ==
  IF colorName \in DOMAIN colors THEN HexToColor(colors[colorName])
  ELSE HexToColor(colorName)

\* strings.ToLower on the letters the style tokens use
ToLowerChar(c) ==
  CASE c = "B" -> "b" [] c = "O" -> "o" [] c = "L" -> "l" [] c = "D" -> "d"
    [] c = "I" -> "i" [] c = "T" -> "t" [] c = "A" -> "a" [] c = "C" -> "c"
    [] OTHER -> c

ToLower(s) == [i \in 1..Len(s) |-> ToLowerChar(s[i])]

ResolveFontStyle(styleStr) ==
  LET l == ToLower(styleStr)
  IN CASE l = <<"b","o","l","d">> -> "bold"
       [] l = <<"i","t","a","l","i","c">> -> "italic"
       [] l = <<"b","o","l","d","i","t","a","l","i","c">> -> "bolditalic"
       [] OTHER -> "normal"

\* reading a Go map: the zero value when the key is missing
ZeroSectionConfig == [Template |-> "", Title |-> EmptyStr, Icon |-> [nil |-> TRUE, v |-> EmptyStr],
                      Enabled |-> FALSE]
ZeroSectionTemplate == [Spacing |-> "", Font |-> "", IconSize |-> 0, TitleSpacing |-> "",
                        ItemSpacing |-> ""]
ZeroFont == [Family |-> "", Size |-> 0, Style |-> EmptyStr, Color |-> EmptyStr]

SectionCfgOf(c, key) == IF key \in DOMAIN c.Sections THEN c.Sections[key] ELSE ZeroSectionConfig
TemplateOf(c, name) ==
  IF name \in DOMAIN c.SectionTemplates THEN c.SectionTemplates[name] ELSE ZeroSectionTemplate
FontOf(c, name) == IF name \in DOMAIN c.Fonts THEN c.Fonts[name] ELSE ZeroFont
SpacingOf(c, name) == IF name \in DOMAIN c.Spacing THEN c.Spacing[name] ELSE 0

-----------------------------------------------------------------------------
(* The backend's rows: a row of a height holds columns, a column components *)

NoLink == [nil |-> TRUE, v |-> EmptyStr]

TextComp(txt, family, size, style, color, link) ==
  [kind |-> "text", text |-> txt, path |-> EmptyStr, family |-> family, size |-> size,
   style |-> style, color |-> color, link |-> link]

\* text.New("", props.Text{})
EmptyText == TextComp(EmptyStr, "", 0, "normal", Color(0, 0, 0), NoLink)

ImageComp(path, percent) ==
  [kind |-> "image", text |-> EmptyStr, path |-> path, family |-> "", size |-> percent,
   style |-> "", color |-> Color(0, 0, 0), link |-> NoLink]

LineComp(color) ==
  [kind |-> "line", text |-> EmptyStr, path |-> EmptyStr, family |-> "", size |-> 0,
   style |-> "", color |-> color, link |-> NoLink]

Col(size, comps) == [size |-> size, comps |-> comps]

\* m is the maroto instance together with the filesystem the pass works on and
\* the record of its EnsureIconExists calls. A row and a call are labelled,
\* after the fact, with the part of the document and the section key or contact
\* field they were made for.
AddRow(m, height, cols) ==
  [m EXCEPT !.rows = Append(@, [height |-> height, cols |-> cols, part |-> "", key |-> ""])]

NewMaroto(f) == [rows |-> <<>>, fs |-> f, icons |-> <<>>, rendered |-> <<>>]

\* label with part the rows m1 has beyond m0 that have no part yet
MarkPart(m0, m1, part) ==
  LET rs == m1.rows
  IN [m1 EXCEPT !.rows =
        [i \in 1..Len(rs) |->
           IF i > Len(m0.rows) /\ rs[i].part = "" THEN [rs[i] EXCEPT !.part = part]
           ELSE rs[i]]]

\* label with key the rows and the icon calls m1 has beyond m0 that have no key yet
MarkKey(m0, m1, key) ==
  LET rs == m1.rows
      ic == m1.icons
  IN [m1 EXCEPT
        !.rows = [i \in 1..Len(rs) |->
                    IF i > Len(m0.rows) /\ rs[i].key = "" THEN [rs[i] EXCEPT !.key = key]
                    ELSE rs[i]],
        !.icons = [i \in 1..Len(ic) |->
                     IF i > Len(m0.icons) /\ ic[i].key = "" THEN [ic[i] EXCEPT !.key = key]
                     ELSE ic[i]]]

\* EnsureIconExists on the pass's filesystem, the call recorded
Ensure(m, iconName, c) ==
  LET Recorded(r) ==
        [m    |-> [m EXCEPT !.fs = r.fs,
                            !.icons = Append(@, [key |-> "", icon |-> iconName, path |-> r.path,
                                                 err |-> r.err, ops |-> r.ops])],
         path |-> r.path]
  IN Recorded(EnsureIconExists(m.fs, iconName, c.Icons, c.Colors))

-----------------------------------------------------------------------------
(* utils: the helpers of the composer *)

Placeholders == {"{{.Personal.Name}}", "{{.Personal.GitHub}}", "{{.Personal.Fax}}"}

\* the fields a template can name; .Personal.Fax is no field of PersonalInfo
FieldValue(ph, cnt) ==
  CASE ph = "{{.Personal.Name}}" -> cnt.Personal.Name
    [] ph = "{{.Personal.GitHub}}" -> cnt.Personal.GitHub

RECURSIVE Expand(_, _)
Expand(t, cnt) ==
  IF t = <<>> THEN <<>>
  ELSE IF Head(t) \in Placeholders THEN FieldValue(Head(t), cnt) \o Expand(Tail(t), cnt)
  ELSE <<Head(t)>> \o Expand(Tail(t), cnt)

\* ResolveTemplate: a text without "{{" and a template that fails to execute are
\* returned as they are
ResolveTemplate(templateStr, cnt) ==
  IF \A i \in 1..Len(templateStr) : templateStr[i] \notin Placeholders THEN templateStr
  ELSE IF \E i \in 1..Len(templateStr) : templateStr[i] = "{{.Personal.Fax}}" THEN templateStr
  ELSE Expand(templateStr, cnt)

S_secondary == <<"s","e","c","o","n","d","a","r","y">>
S_link      == <<"l","i","n","k">>

AddDivider(m, c) ==
  [m   |-> MarkPart(m, AddRow(m, SpacingOf(c, "medium"),
                              <<Col(12, <<LineComp(ResolveColor(S_secondary, c.Colors))>>)>>),
                    "divider"),
   err |-> "nil"]

CreateColoredIcon(m, iconName, c, size) ==
  LET Image(e) == [m    |-> e.m,
                   comp |-> IF e.path = EmptyStr THEN EmptyText ELSE ImageComp(e.path, size)]
  IN Image(Ensure(m, iconName, c))

IconSizeOr60(iconSize) == IF iconSize = 0 THEN 60 ELSE iconSize

\* a title builder that returns an error when the title's icon is not available
AddSectionTitle_Strict(m, c, sectionCfg, template) ==
  LET titleFont == FontOf(c, "section_title")
      titleComp == TextComp(sectionCfg.Title, titleFont.Family, titleFont.Size,
                            ResolveFontStyle(titleFont.Style),
                            ResolveColor(titleFont.Color, c.Colors), NoLink)
      Row(m1, cols) ==
        [m   |-> MarkPart(m, AddRow(m1, SpacingOf(c, template.TitleSpacing), cols), "title"),
         err |-> "nil"]
      WithIcon(ic) == IF ic.comp.kind = "image"
                        THEN Row(ic.m, <<Col(1, <<ic.comp>>), Col(11, <<titleComp>>)>>)
                        ELSE [m |-> ic.m, err |-> "icon"]
  IN IF ~sectionCfg.Icon.nil /\ sectionCfg.Icon.v # EmptyStr
       THEN WithIcon(CreateColoredIcon(m, sectionCfg.Icon.v, c, IconSizeOr60(template.IconSize)))
       ELSE Row(m, <<Col(12, <<titleComp>>)>>)

AddSectionTitle(m, c, sectionCfg, template) ==
  LET titleFont == FontOf(c, "section_title")
      titleComp == TextComp(sectionCfg.Title, titleFont.Family, titleFont.Size,
                            ResolveFontStyle(titleFont.Style),
                            ResolveColor(titleFont.Color, c.Colors), NoLink)
      Row(m1, cols) ==
        [m   |-> MarkPart(m, AddRow(m1, SpacingOf(c, template.TitleSpacing), cols), "title"),
         err |-> "nil"]
      WithIcon(ic) == Row(ic.m, <<Col(1, <<ic.comp>>), Col(11, <<titleComp>>)>>)
  IN IF ~sectionCfg.Icon.nil /\ sectionCfg.Icon.v # EmptyStr
       THEN WithIcon(CreateColoredIcon(m, sectionCfg.Icon.v, c, IconSizeOr60(template.IconSize)))
       ELSE Row(m, <<Col(12, <<titleComp>>)>>)

\* a column builder that drops the field when its icon is not available
CreateContactFieldCol_IconOnly(m, field, c, cnt) ==
  LET fieldContent == ResolveTemplate(field.Content, cnt)
      contactFont  == FontOf(c, TemplateOf(c, "contact").Font)
      mainComp == TextComp(fieldContent, contactFont.Family, contactFont.Size,
                           ResolveFontStyle(contactFont.Style),
                           ResolveColor(contactFont.Color, c.Colors), NoLink)
      Column(e) ==
        IF e.path # EmptyStr
          THEN [m |-> e.m, col |-> Col(4, <<ImageComp(e.path, 60), mainComp>>)]
          ELSE [m |-> e.m, col |-> Col(4, <<>>)]
  IN IF fieldContent = EmptyStr THEN [m |-> m, col |-> Col(4, <<>>)]
     ELSE Column(Ensure(m, field.Icon, c))

CreateContactFieldCol(m, field, c, cnt) ==
  LET contactTemplate == TemplateOf(c, "contact")
      contactFont  == FontOf(c, contactTemplate.Font)
      fieldContent == ResolveTemplate(field.Content, cnt)
      isLink   == ~field.Type.nil /\ field.Type.v = S_link /\ ~field.Link.nil
      mainComp == IF isLink
                    THEN TextComp(fieldContent, contactFont.Family, contactFont.Size,
                                  ResolveFontStyle(contactFont.Style),
                                  ResolveColor(S_link, c.Colors),
                                  [nil |-> FALSE, v |-> ResolveTemplate(field.Link.v, cnt)])
                    ELSE TextComp(fieldContent, contactFont.Family, contactFont.Size,
                                  ResolveFontStyle(contactFont.Style),
                                  ResolveColor(contactFont.Color, c.Colors), NoLink)
      WithIcon(ic) == [m |-> ic.m, col |-> Col(4, <<ic.comp, mainComp>>)]
      Column(e) ==
        IF e.path # EmptyStr
          THEN WithIcon(CreateColoredIcon(e.m, field.Icon, c,
                                          IconSizeOr60(contactTemplate.IconSize)))
          ELSE [m |-> e.m, col |-> Col(4, <<mainComp>>)]
  IN IF fieldContent = EmptyStr THEN [m |-> m, col |-> Col(4, <<>>)]
     ELSE Column(Ensure(m, field.Icon, c))

-----------------------------------------------------------------------------
(* templates: template-1 *)

buildHeaderSection(m, c, cnt) ==
  LET headerFont == FontOf(c, "header")
  IN [m   |-> MarkPart(m,
                AddRow(m, SpacingOf(c, TemplateOf(c, "header").Spacing),
                       <<Col(12, <<TextComp(cnt.Personal.Name, headerFont.Family, headerFont.Size,
                                            ResolveFontStyle(headerFont.Style),
                                            ResolveColor(headerFont.Color, c.Colors), NoLink)>>)>>),
                "header"),
      err |-> "nil"]

RECURSIVE ContactCols(_, _, _, _, _)
\* buildContactSection: the columns of the group that starts at field i, for the
\* fields i, i+1, i+2 that exist (k counts from 0)
ContactCols(m, i, k, c, cnt) ==
  IF k > 2 \/ i + k > Len(cnt.ContactFields) THEN [m |-> m, cols |-> <<>>]
  ELSE LET field == cnt.ContactFields[i + k]
           Before(col, rest) == [m |-> rest.m, cols |-> <<col>> \o rest.cols]
           Then(r) == Before(r.col, ContactCols(MarkKey(m, r.m, field.Field), i, k + 1, c, cnt))
       IN Then(CreateContactFieldCol(m, field, c, cnt))

RECURSIVE ContactRowsFrom_Pairs(_, _, _, _)
\* a loop that advances by two fields and still takes three to a row
ContactRowsFrom_Pairs(m, i, c, cnt) ==
  IF i > Len(cnt.ContactFields) THEN m
  ELSE LET Row(g) == IF Len(g.cols) > 0
                       THEN AddRow(g.m, SpacingOf(c, TemplateOf(c, "contact").Spacing), g.cols)
                       ELSE g.m
       IN ContactRowsFrom_Pairs(Row(ContactCols(m, i, 0, c, cnt)), i + 2, c, cnt)

RECURSIVE ContactRowsFrom(_, _, _, _)
\* buildContactSection: the loop for i := 0; i < len; i += 3 (i counts from 1 here)
ContactRowsFrom(m, i, c, cnt) ==
  IF i > Len(cnt.ContactFields) THEN m
  ELSE LET Row(g) == IF Len(g.cols) > 0
                       THEN AddRow(g.m, SpacingOf(c, TemplateOf(c, "contact").Spacing), g.cols)
                       ELSE g.m
       IN ContactRowsFrom(Row(ContactCols(m, i, 0, c, cnt)), i + 3, c, cnt)

buildContactSection(m, c, cnt) ==
  [m |-> MarkPart(m, ContactRowsFrom(m, 1, c, cnt), "contact"), err |-> "nil"]

\* a decoded JSON value (interface{}): t is its dynamic type; its value is s for a
\* string, a for an array, m for an object, n for a number
VStr(s) == [t |-> "string", s |-> s, a |-> <<>>, m |-> NoSections, n |-> 0]
VArr(a) == [t |-> "array", s |-> EmptyStr, a |-> a, m |-> NoSections, n |-> 0]
VMap(r) == [t |-> "map", s |-> EmptyStr, a |-> <<>>, m |-> r, n |-> 0]
VNum(n) == [t |-> "number", s |-> EmptyStr, a |-> <<>>, m |-> NoSections, n |-> n]

\* data[key].(string), ok
IsStringAt(data, key) == key \in DOMAIN data.m /\ data.m[key].t = "string"

\* the elements of an array that are strings, in order
StringsOf(a) ==
  LET strs == SelectSeq(a, LAMBDA x : x.t = "string")
  IN [i \in 1..Len(strs) |-> strs[i].s]

S_sep == <<" ","|"," ">>

buildSimpleListSection(m, c, sectionCfg, sectionData) ==
  LET template == TemplateOf(c, sectionCfg.Template)
      bodyFont == FontOf(c, template.Font)
      body(txt) == <<Col(12, <<TextComp(txt, bodyFont.Family, bodyFont.Size,
                                        ResolveFontStyle(bodyFont.Style),
                                        ResolveColor(bodyFont.Color, c.Colors), NoLink)>>)>>
      bodySpacing == SpacingOf(c, template.Spacing)
      Body(m1) ==
        CASE sectionData.t = "map" ->
               IF IsStringAt(sectionData, "content")
                 THEN AddRow(m1, bodySpacing, body(sectionData.m["content"].s))
                 ELSE m1
          [] sectionData.t = "array" ->
               IF Len(StringsOf(sectionData.a)) > 0
                 THEN AddRow(m1, bodySpacing, body(StringsJoin(StringsOf(sectionData.a), S_sep)))
                 ELSE m1
          [] OTHER -> m1
      After(t) == IF t.err # "nil" THEN t ELSE [m |-> MarkPart(m, Body(t.m), "body"), err |-> "nil"]
  IN After(AddSectionTitle(m, c, sectionCfg, template))

NilStr == [nil |-> TRUE, v |-> EmptyStr]
PtrTo(s) == [nil |-> FALSE, v |-> s]

\* itemMap[key].(string) taken by address, nil when it is no string
StrPtr(itemMap, key) == IF IsStringAt(itemMap, key) THEN PtrTo(itemMap.m[key].s) ELSE NilStr

\* BuildTemplate1: one map of "items" converted to a utils.EntryItem
EntryOf(itemMap) ==
  [Title       |-> StrPtr(itemMap, "title"),
   Company     |-> StrPtr(itemMap, "company"),
   Institution |-> StrPtr(itemMap, "institution"),
   Degree      |-> StrPtr(itemMap, "degree"),
   Location    |-> StrPtr(itemMap, "location"),
   StartDate   |-> StrPtr(itemMap, "start_date"),
   EndDate     |-> StrPtr(itemMap, "end_date"),
   Description |-> IF "description" \in DOMAIN itemMap.m /\ itemMap.m["description"].t = "array"
                     THEN StringsOf(itemMap.m["description"].a)
                     ELSE <<>>]

\* BuildTemplate1: the payload converted to utils.SectionData.Items
ItemsOf(sectionData) ==
  IF sectionData.t = "map" /\ "items" \in DOMAIN sectionData.m
       /\ sectionData.m["items"].t = "array"
    THEN LET maps == SelectSeq(sectionData.m["items"].a, LAMBDA x : x.t = "map")
         IN [i \in 1..Len(maps) |-> EntryOf(maps[i])]
    ELSE <<>>

S_dash == <<" ","-"," ">>

\* buildEntryListSection: the rows of one item
EntryRows(m, c, template, item) ==
  LET bodyFont      == FontOf(c, template.Font)
      emphasisFont  == FontOf(c, "emphasis")
      bodyColor     == ResolveColor(bodyFont.Color, c.Colors)
      emphasisColor == ResolveColor(emphasisFont.Color, c.Colors)
      itemSpacing   == SpacingOf(c, template.ItemSpacing)
      titleLine == IF ~item.Title.nil /\ ~item.Company.nil
                     THEN item.Title.v \o S_dash \o item.Company.v
                   ELSE IF ~item.Degree.nil /\ ~item.Institution.nil
                     THEN item.Degree.v \o S_dash \o item.Institution.v
                   ELSE EmptyStr
      m1 == IF titleLine # EmptyStr
              THEN AddRow(m, itemSpacing,
                          <<Col(12, <<TextComp(titleLine, emphasisFont.Family, emphasisFont.Size,
                                               ResolveFontStyle(emphasisFont.Style),
                                               emphasisColor, NoLink)>>)>>)
              ELSE m
      dateStr == (IF ~item.StartDate.nil THEN item.StartDate.v ELSE EmptyStr)
                   \o S_dash \o (IF ~item.EndDate.nil THEN item.EndDate.v ELSE EmptyStr)
      parts == (IF ~item.Location.nil THEN <<item.Location.v>> ELSE <<>>)
                 \o (IF ~item.StartDate.nil \/ ~item.EndDate.nil THEN <<dateStr>> ELSE <<>>)
      m2 == IF Len(parts) > 0
              THEN AddRow(m1, itemSpacing - 2,
                          <<Col(12, <<TextComp(StringsJoin(parts, S_sep), bodyFont.Family,
                                               bodyFont.Size - 1, "italic", bodyColor, NoLink)>>)>>)
              ELSE m1
      bullet(b) == <<Col(12, <<TextComp(<<"-"," ">> \o b, bodyFont.Family, bodyFont.Size - 1,
                                        "normal", bodyColor, NoLink)>>)>>
      RECURSIVE Bullets(_, _)
      Bullets(mm, i) ==
        IF i > Len(item.Description) THEN mm
        ELSE Bullets(AddRow(mm, itemSpacing - 2, bullet(item.Description[i])), i + 1)
  IN Bullets(m2, 1)

RECURSIVE EntryItemsFrom(_, _, _, _, _)
EntryItemsFrom(m, c, template, items, i) ==
  IF i > Len(items) THEN m
  ELSE EntryItemsFrom(EntryRows(m, c, template, items[i]), c, template, items, i + 1)

buildEntryListSection(m, c, sectionCfg, items) ==
  LET template == TemplateOf(c, sectionCfg.Template)
      After(t) ==
        IF t.err # "nil" THEN t
        ELSE [m |-> MarkPart(m, EntryItemsFrom(t.m, c, template, items, 1), "body"), err |-> "nil"]
  IN After(AddSectionTitle(m, c, sectionCfg, template))

sectionOrder == <<"summary", "experience", "education", "skills", "certifications">>

Rendered(m, key) == [m EXCEPT !.rendered = Append(@, key)]

RECURSIVE SectionsFrom(_, _, _, _)
\* BuildTemplate1: the loop over sectionOrder from index i
SectionsFrom(m, i, c, cnt) ==
  IF i > Len(sectionOrder) THEN [m |-> m, err |-> "nil"]
  ELSE LET sectionKey == sectionOrder[i]
           sectionCfg == SectionCfgOf(c, sectionKey)
           After(r) == IF r.err # "nil" THEN r
                       ELSE SectionsFrom(MarkKey(m, r.m, sectionKey), i + 1, c, cnt)
       IN IF sectionKey \notin DOMAIN c.Sections \/ ~sectionCfg.Enabled
            THEN SectionsFrom(m, i + 1, c, cnt)
          ELSE IF sectionKey \notin DOMAIN cnt.Sections
            THEN SectionsFrom(m, i + 1, c, cnt)
          ELSE After(CASE sectionCfg.Template = "simple_list" ->
                            buildSimpleListSection(Rendered(m, sectionKey), c, sectionCfg,
                                                   cnt.Sections[sectionKey])
                       [] sectionCfg.Template = "entry_list" ->
                            buildEntryListSection(Rendered(m, sectionKey), c, sectionCfg,
                                                  ItemsOf(cnt.Sections[sectionKey]))
                       [] OTHER -> [m |-> m, err |-> "nil"])

BuildTemplate1(m, c, cnt) ==
  LET contact == SectionCfgOf(c, "contact").Enabled
      Dynamic(d) == IF d.err # "nil" THEN d ELSE SectionsFrom(d.m, 1, c, cnt)
      Divider(k) == IF k.err # "nil" THEN k
                    ELSE Dynamic(IF contact THEN AddDivider(k.m, c) ELSE k)
      Contact(h) == IF h.err # "nil" THEN h
                    ELSE Divider(IF contact THEN buildContactSection(h.m, c, cnt) ELSE h)
  IN Contact(IF SectionCfgOf(c, "header").Enabled
               THEN buildHeaderSection(m, c, cnt) ELSE [m |-> m, err |-> "nil"])

\* generatePDF of the template program: the rows handed to the backend and the
\* error returned; Generate and Save are the backend's
generatePDF(f, c, cnt, templateName) ==
  IF templateName = "template-1"
    THEN BuildTemplate1(NewMaroto(f), c, cnt)
    ELSE [m |-> NewMaroto(f), err |-> "unknown template"]

-----------------------------------------------------------------------------
(* main.go: the single-file composer *)

S_fa   == <<"f","a">>
S_svgs == <<"s","v","g","s">>
S_png  == <<".","p","n","g">>

\* fontawesome-free-6.4.0-desktop/svgs/<set>, the distribution's name shortened
FaDir(set) == PathJoin(PathJoin(S_fa, S_svgs), set)

main_convertSVGToPNG(f, svgPath, pngPath, maxSize) ==
  convertSVGToPNG(f, svgPath, pngPath, maxSize, EmptyStr)

convertFontAwesomeIcon(f, iconName) ==
  LET f1     == MkdirAll(f)
      png    == PathJoin(S_icons, iconName \o S_png)
      solid  == SvgPathOf(FaDir(S_solid), iconName)
      brands == SvgPathOf(FaDir(S_brands), iconName)
      mk     == <<Op("mkdir", S_icons)>>
  IN IF FileExists(f1.src, solid)
       THEN LET r == main_convertSVGToPNG(f1, solid, png, 32)
            IN [r EXCEPT !.ops = mk \o <<Op("statsrc", solid)>> \o @]
     ELSE IF FileExists(f1.src, brands)
       THEN LET r == main_convertSVGToPNG(f1, brands, png, 32)
            IN [r EXCEPT !.ops = mk \o <<Op("statsrc", solid), Op("statsrc", brands)>> \o @]
     ELSE [err |-> "notfound", fs |-> f1,
           ops |-> mk \o <<Op("statsrc", solid), Op("statsrc", brands)>>]

ensureIconExists(f, iconName) ==
  LET pngPath == PathJoin(S_icons, iconName \o S_png)
      st == <<Op("stat", pngPath)>>
      Converted(r) == [path |-> IF r.err # "nil" THEN EmptyStr ELSE pngPath,
                       fs |-> r.fs, ops |-> st \o r.ops, err |-> r.err]
  IN IF FileExists(f.cache, pngPath)
       THEN [path |-> pngPath, fs |-> f, ops |-> st, err |-> "none"]
       ELSE Converted(convertFontAwesomeIcon(f, iconName))

\* main.go's own copy of the colour conversion
hexToColor(hex) ==
  LET h == TrimPrefix(hex, "#")
  IN IF Len(h) # 6 THEN Color(0, 0, 0)
     ELSE Color(parseInt(SubSeq(h, 1, 2)), parseInt(SubSeq(h, 3, 4)), parseInt(SubSeq(h, 5, 6)))

fontAwesomeIcons ==
  [email    |-> PathJoin(S_icons, <<"e","n","v","e","l","o","p","e">> \o S_png),
   phone    |-> PathJoin(S_icons, <<"p","h","o","n","e">> \o S_png),
   website  |-> PathJoin(S_icons, <<"g","l","o","b","e">> \o S_png),
   github   |-> PathJoin(S_icons, <<"g","i","t","h","u","b">> \o S_png),
   linkedin |-> PathJoin(S_icons, <<"l","i","n","k","e","d","i","n">> \o S_png),
   address  |-> PathJoin(S_icons, <<"l","o","c","a","t","i","o","n","-","d","o","t">> \o S_png),
   location |-> PathJoin(S_icons, <<"l","o","c","a","t","i","o","n","-","d","o","t">> \o S_png)]

\* getDefaultStyle: the colours and sizes buildResumePage reads
DefaultStyle ==
  [Colors |-> [Primary |-> S_h2C3E50, Secondary |-> S_h34495E, Text |-> S_h2C3E50],
   Layout |-> [HeaderSize |-> 24, BodySize |-> 11, SinglePage |-> FALSE, CompactMode |-> FALSE]]

\* text.New with the props main.go sets: size, style and colour
PlainText(txt, size, sty, color) == TextComp(txt, "", size, sty, color, NoLink)

addContactWithSVG(m, iconKey, contactText, iconName, textColor, fontSize, rowHeight) ==
  LET txt == PlainText(contactText, fontSize, "normal", textColor)
      Row(m1, iconPath) ==
        IF iconPath = EmptyStr
          THEN MarkKey(m, AddRow(m1, rowHeight, <<Col(12, <<txt>>)>>), iconKey)
          ELSE MarkKey(m, AddRow(m1, rowHeight,
                                 <<Col(1, <<ImageComp(iconPath, 0)>>), Col(11, <<txt>>)>>), iconKey)
      Custom(e) ==
        Row([m EXCEPT !.fs = e.fs,
                      !.icons = Append(@, [key |-> iconKey, icon |-> iconName,
                                           path |-> e.path, err |-> e.err, ops |-> e.ops])],
            e.path)
  IN IF contactText = EmptyStr THEN m
     ELSE IF iconName # EmptyStr THEN Custom(ensureIconExists(m.fs, iconName))
     ELSE Row(m, IF iconKey \in DOMAIN fontAwesomeIcons THEN fontAwesomeIcons[iconKey]
                 ELSE EmptyStr)

addMarotoSection(m, title, headerColor) ==
  MarkPart(m, AddRow(m, 12, <<Col(12, <<PlainText(title, 14, "bold", headerColor)>>)>>), "title")

\* getString: the string at key, "" when missing or no string
getString(data, key) == IF IsStringAt(data, key) THEN data.m[key].s ELSE EmptyStr

\* section.Data[key].([]interface{}), ok
IsArrayAt(data, key) == key \in DOMAIN data.m /\ data.m[key].t = "array"

TextSection_Render(m, section, style) ==
  LET t == addMarotoSection(m, section.Title, HexToColor(style.Colors.Secondary))
  IN IF IsStringAt(section.Data, "content")
       THEN AddRow(t, 8, <<Col(12, <<PlainText(section.Data.m["content"].s, style.Layout.BodySize,
                                               "normal", HexToColor(style.Colors.Text))>>)>>)
       ELSE t

\* "U+2022" stands for the one character BULLET
S_bullet == <<"U+2022"," ">>
S_dot    == <<" ","U+2022"," ">>

\* the location and dates line both entry renderers build
LocationAndDates(item) ==
  IF getString(item, "start_date") # EmptyStr \/ getString(item, "end_date") # EmptyStr
    THEN getString(item, "location") \o S_sep \o getString(item, "start_date") \o S_dash
           \o getString(item, "end_date")
    ELSE getString(item, "location")

\* the heading row and the location row of one entry; a and b name the heading's fields
EntryHead(m, item, a, b, style) ==
  LET textColor == HexToColor(style.Colors.Text)
      m1 == IF getString(item, a) # EmptyStr /\ getString(item, b) # EmptyStr
              THEN AddRow(m, 8, <<Col(12, <<PlainText(getString(item, a) \o S_dash \o getString(item, b),
                                                      style.Layout.BodySize + 1, "bold", textColor)>>)>>)
              ELSE m
  IN IF LocationAndDates(item) # EmptyStr
       THEN AddRow(m1, 6, <<Col(12, <<PlainText(LocationAndDates(item), style.Layout.BodySize - 1,
                                                "italic", textColor)>>)>>)
       ELSE m1

RECURSIVE BulletRows(_, _, _, _)
BulletRows(m, bullets, i, style) ==
  IF i > Len(bullets) THEN m
  ELSE BulletRows(AddRow(m, 6, <<Col(12, <<PlainText(S_bullet \o bullets[i],
                                                     style.Layout.BodySize - 1, "normal",
                                                     HexToColor(style.Colors.Text))>>)>>),
                  bullets, i + 1, style)

RECURSIVE ExperienceItems(_, _, _, _)
ExperienceItems(m, items, i, style) ==
  IF i > Len(items) THEN m
  ELSE IF items[i].t # "map" THEN ExperienceItems(m, items, i + 1, style)
  ELSE LET Bullets(h) == IF IsArrayAt(items[i], "description")
                           THEN BulletRows(h, StringsOf(items[i].m["description"].a), 1, style)
                           ELSE h
       IN ExperienceItems(Bullets(EntryHead(m, items[i], "title", "company", style)),
                          items, i + 1, style)

ExperienceSection_Render(m, section, style) ==
  LET t == addMarotoSection(m, section.Title, HexToColor(style.Colors.Secondary))
  IN IF IsArrayAt(section.Data, "items")
       THEN ExperienceItems(t, section.Data.m["items"].a, 1, style)
       ELSE t

RECURSIVE EducationItems(_, _, _, _)
EducationItems(m, items, i, style) ==
  IF i > Len(items) THEN m
  ELSE IF items[i].t # "map" THEN EducationItems(m, items, i + 1, style)
  ELSE EducationItems(EntryHead(m, items[i], "degree", "institution", style), items, i + 1, style)

EducationSection_Render(m, section, style) ==
  LET t == addMarotoSection(m, section.Title, HexToColor(style.Colors.Secondary))
  IN IF IsArrayAt(section.Data, "items")
       THEN EducationItems(t, section.Data.m["items"].a, 1, style)
       ELSE t

SkillsSection_Render(m, section, style) ==
  LET t == addMarotoSection(m, section.Title, HexToColor(style.Colors.Secondary))
      skills == IF IsArrayAt(section.Data, "items")
                  THEN StringsOf(section.Data.m["items"].a) ELSE <<>>
  IN IF Len(skills) > 0
       THEN AddRow(t, 8, <<Col(12, <<PlainText(StringsJoin(skills, S_dot), style.Layout.BodySize,
                                               "normal", HexToColor(style.Colors.Text))>>)>>)
       ELSE t

\* createSectionRegistry: type tag -> renderer
createSectionRegistry ==
  [text |-> "TextSection", summary |-> "TextSection", experience |-> "ExperienceSection",
   education |-> "EducationSection", skills |-> "SkillsSection"]

\* renderer.Render(mrt, section, style), dispatched on the registered renderer
Render(renderer, m, section, style) ==
  CASE renderer = "TextSection"       -> TextSection_Render(m, section, style)
    [] renderer = "ExperienceSection" -> ExperienceSection_Render(m, section, style)
    [] renderer = "EducationSection"  -> EducationSection_Render(m, section, style)
    [] renderer = "SkillsSection"     -> SkillsSection_Render(m, section, style)

\* an exchange that loses the element at i
Swap_Overwrite(s, i, j) == [s EXCEPT ![i] = s[j]]

\* sections[i], sections[j] = sections[j], sections[i]
Swap(s, i, j) == [s EXCEPT ![i] = s[j], ![j] = s[i]]

\* an inner loop that never swaps
SortInner_NoSwap(s, i, j) == s

RECURSIVE SortInner(_, _, _)
\* buildResumePage: for j := i + 1; j < len; j++ { swap when Order[i] > Order[j] }
SortInner(s, i, j) ==
  IF j > Len(s) THEN s
  ELSE SortInner(IF s[i].Order > s[j].Order THEN Swap(s, i, j) ELSE s, i, j + 1)

RECURSIVE SortOuter(_, _)
\* buildResumePage: for i := 0; i < len; i++
SortOuter(s, i) == IF i > Len(s) THEN s ELSE SortOuter(SortInner(s, i, i + 1), i + 1)

\* sections := resume.Sections: a second name for the caller's list
CopySections_Alias(sections) == [elems |-> sections, shared |-> TRUE]

\* buildResumePage: make and copy give a list with a backing array of its own
CopySections(sections) == [elems |-> sections, shared |-> FALSE]

\* buildResumePage: the copy of resume.Sections, sorted by Order
SortedSections(sections) == SortOuter(CopySections(sections).elems, 1)

\* buildResumePage: the caller's resume once the sort has run; the swaps reach
\* its list when the sorted list shares the backing array
ResumeAfterSort(r) ==
  IF CopySections(r.Sections).shared
    THEN [r EXCEPT !.Sections = SortedSections(r.Sections)]
    ELSE r

RECURSIVE RenderFrom_Default(_, _, _, _)
\* a loop that renders a section of an unregistered type as a text section
RenderFrom_Default(m, sections, i, style) ==
  IF i > Len(sections) THEN m
  ELSE LET section == sections[i]
           m0 == [m EXCEPT !.rendered = Append(@, section)]
           renderer == IF section.Type \in DOMAIN createSectionRegistry
                         THEN createSectionRegistry[section.Type] ELSE "TextSection"
       IN IF section.Enabled
            THEN RenderFrom_Default(MarkKey(m, MarkPart(m, Render(renderer, m0, section, style),
                                                        "body"), section.Type),
                                    sections, i + 1, style)
            ELSE RenderFrom_Default(m, sections, i + 1, style)

RECURSIVE RenderFrom(_, _, _, _)
\* buildResumePage: the loop over the sorted sections from index i
RenderFrom(m, sections, i, style) ==
  IF i > Len(sections) THEN m
  ELSE LET section == sections[i]
           m0 == [m EXCEPT !.rendered = Append(@, section)]
       IN IF section.Enabled /\ section.Type \in DOMAIN createSectionRegistry
            THEN RenderFrom(MarkKey(m, MarkPart(m,
                                Render(createSectionRegistry[section.Type], m0, section, style),
                                "body"), section.Type),
                            sections, i + 1, style)
            ELSE RenderFrom(m, sections, i + 1, style)

ContactKeys == <<"email", "phone", "address", "website", "github", "linkedin">>

RECURSIVE ContactsFrom(_, _, _, _)
\* buildResumePage: the six addContactWithSVG calls, in order
ContactsFrom(m, i, r, style) ==
  IF i > Len(ContactKeys) THEN m
  ELSE LET key == ContactKeys[i]
           iconName == IF key \in DOMAIN r.PersonalInfo.Icons
                         THEN r.PersonalInfo.Icons[key] ELSE EmptyStr
           rowHeight == IF style.Layout.CompactMode \/ style.Layout.SinglePage THEN 4 ELSE 6
       IN ContactsFrom(MarkPart(m, addContactWithSVG(m, key, r.PersonalInfo[key], iconName,
                                                     HexToColor(style.Colors.Text),
                                                     style.Layout.BodySize, rowHeight),
                                "contact"),
                       i + 1, r, style)

buildResumePage(m, r, style) ==
  LET h == MarkPart(m, AddRow(m, 20, <<Col(12, <<PlainText(r.PersonalInfo.Name, style.Layout.HeaderSize,
                                                          "bold", HexToColor(style.Colors.Primary))>>)>>),
                    "header")
      k == ContactsFrom(h, 1, r, style)
  IN RenderFrom(k, SortedSections(r.Sections), 1, style)

\* generatePDF of main.go: buildResumePage returns nothing; Generate and Save are the backend's
main_generatePDF(f, r, style) ==
  [m |-> buildResumePage(NewMaroto(f), r, style), err |-> "nil"]

-----------------------------------------------------------------------------
(* The inputs of the composers *)

MaxFields   == 4
MaxSections == 3

S_Go     == <<"G","o">>
S_Rust   == <<"R","u","s","t">>
S_Skills == <<"S","k","i","l","l","s">>
S_Work   == <<"W","o","r","k">>
S_School == <<"S","c","h","o","o","l">>
S_Other  == <<"O","t","h","e","r">>
S_Jane   == <<"J","a","n","e">>
S_mail   == <<"j","@","x">>
S_555    == <<"5","5","5">>
S_Bold   == <<"B","o","l","d">>

Font(family, size, style, color) ==
  [Family |-> family, Size |-> size, Style |-> style, Color |-> color]

SectionTemplate(spacing, font, iconSize, titleSpacing, itemSpacing) ==
  [Spacing |-> spacing, Font |-> font, IconSize |-> iconSize, TitleSpacing |-> titleSpacing,
   ItemSpacing |-> itemSpacing]

\* a config.json with every name the composer looks up, except the colour "link";
\* the body font's colour is a short hex
FullStyle ==
  [Colors |-> Palette @@ (S_secondary :> S_h34495E),
   Fonts  |-> [header        |-> Font("Arial", 24, S_Bold, S_primary),
               section_title |-> Font("Arial", 14, S_Bold, S_secondary),
               body          |-> Font("Arial", 11, EmptyStr, S_hFFF),
               emphasis      |-> Font("Arial", 12, S_Bold, S_h2C3E50),
               contact       |-> Font("Arial", 10, EmptyStr, S_primary)],
   Spacing |-> [small |-> 4, medium |-> 6, large |-> 10],
   SectionTemplates |->
     [header      |-> SectionTemplate("large", "header", 0, "", ""),
      contact     |-> SectionTemplate("small", "contact", 50, "", ""),
      simple_list |-> SectionTemplate("medium", "body", 0, "large", ""),
      entry_list  |-> SectionTemplate("medium", "body", 40, "large", "medium")]]

\* a config.json without fonts, spacings, section templates and colours
BareStyle ==
  [Colors |-> NoSections, Fonts |-> NoSections, Spacing |-> NoSections,
   SectionTemplates |-> NoSections]

Styles == {FullStyle, BareStyle}

SectionCfg(template, title, icon, enabled) ==
  [Template |-> template, Title |-> title, Icon |-> icon, Enabled |-> enabled]

TemplateConfig(style, sections) ==
  [Colors |-> style.Colors, Icons |-> IconCfg(S_primary, 32), Sections |-> sections,
   SectionTemplates |-> style.SectionTemplates, Fonts |-> style.Fonts, Spacing |-> style.Spacing]

\* header and contact enabled, or neither configured
Chrome ==
  { ("header" :> SectionCfg("header", EmptyStr, NilStr, TRUE))
      @@ ("contact" :> SectionCfg("contact", EmptyStr, NilStr, TRUE)),
    NoSections }

SkillsCfgs ==
  { NoSections,
    "skills" :> SectionCfg("simple_list", S_Skills, PtrTo(S_email), TRUE),
    "skills" :> SectionCfg("simple_list", S_Skills, NilStr, FALSE),
    "skills" :> SectionCfg("entry_list", S_Skills, NilStr, TRUE),
    "skills" :> SectionCfg("grid", S_Skills, NilStr, TRUE) }

ExperienceCfgs ==
  { NoSections,
    "experience" :> SectionCfg("entry_list", S_Work, NilStr, TRUE),
    "experience" :> SectionCfg("grid", S_Work, PtrTo(S_email), TRUE) }

\* a key that is not one of template-1's five
ProjectsCfgs ==
  { NoSections, "projects" :> SectionCfg("simple_list", S_Other, NilStr, TRUE) }

Entry1 ==
  VMap([title |-> VStr(<<"D","e","v">>), company |-> VStr(<<"A","c","m","e">>),
        location |-> VStr(<<"N","Y">>), start_date |-> VStr(<<"2","0">>),
        description |-> VArr(<<VStr(<<"b","u","i","l","t">>), VNum(7)>>)])

Entry2 ==
  VMap([degree |-> VStr(<<"B","S","c">>), institution |-> VStr(<<"M","I","T">>)])

\* an entry with none of the fields the renderers read
Entry3 == VMap([note |-> VStr(<<"x">>)])

\* an entry with a title and no company, an end date and an empty description
Entry4 ==
  VMap([title |-> VStr(<<"D","e","v">>), end_date |-> VStr(<<"2","1">>),
        description |-> VArr(<<>>)])

SkillsPayloads ==
  { NoSections,
    "skills" :> VMap([items |-> VArr(<<VStr(S_Go), VStr(S_Rust)>>)]),
    "skills" :> VArr(<<VStr(S_Go), VStr(S_Rust)>>),
    "skills" :> VArr(<<VStr(S_Go), VNum(7)>>),
    "skills" :> VMap([content |-> VStr(S_Go)]) }

ExperiencePayloads ==
  { NoSections, "experience" :> VMap([items |-> VArr(<<Entry1, Entry2, Entry3, Entry4>>)]) }

ProjectsPayloads ==
  { NoSections, "projects" :> VArr(<<VStr(S_Rust)>>) }

ContactField(field, cnt, icon, link, type) ==
  [Field |-> field, Content |-> cnt, Icon |-> icon, Link |-> link, Type |-> type]

\* two fields with the mapped icon, one with an unmapped icon, a link built from
\* a template, a field without an icon, a field whose content is empty
FieldKinds ==
  { ContactField("email", S_mail, S_email, NilStr, NilStr),
    ContactField("work", S_mail, S_email, NilStr, NilStr),
    ContactField("fax", S_555, S_fax, NilStr, NilStr),
    ContactField("github", <<"{{.Personal.GitHub}}">>, EmptyStr,
                 PtrTo(<<"h",":","{{.Personal.GitHub}}">>), PtrTo(S_link)),
    ContactField("phone", S_555, EmptyStr, NilStr, NilStr),
    ContactField("blank", EmptyStr, S_email, NilStr, NilStr) }

\* the sequences over S of length n without a repeated element
RECURSIVE Arrangements(_, _)
Arrangements(S, n) ==
  IF n = 0 THEN {<<>>}
  ELSE UNION { { <<x>> \o a : a \in Arrangements(S \ {x}, n - 1) } : x \in S }

ContactLists == UNION { Arrangements(FieldKinds, n) : n \in 0..MaxFields }

Person == [Name |-> S_Jane, GitHub |-> <<"j","d">>]

Cnt(fields, payloads) == [Personal |-> Person, ContactFields |-> fields, Sections |-> payloads]

OneField == <<ContactField("email", S_mail, S_email, NilStr, NilStr)>>

\* the filesystems a pass starts on: the envelope source missing, good, flat
\* (its raster has height 0), malformed, unreadable; the output directory
\* read-only; the raster already in the cache
SourceAt(path, svg, w) ==
  [src |-> (path :> svg), outdir |-> FALSE, writable |-> w, cache |-> NoFiles]

FsKinds(path, cached) ==
  { EmptyFs,
    SourceAt(path, SvgGood, TRUE), SourceAt(path, SvgFlat, TRUE),
    SourceAt(path, SvgBad, TRUE), SourceAt(path, SvgLocked, TRUE),
    SourceAt(path, SvgGood, FALSE),
    [src |-> NoFiles, outdir |-> TRUE, writable |-> TRUE,
     cache |-> (cached :> RasterFile(TRUE, path, SvgGood, S_2C3E50,
                                     RasterDims(SvgGood.W, SvgGood.H, 32)))] }

TemplateFs ==
  FsKinds(SvgPathOf(S_solid, S_envelope), PngPath(S_icons, S_envelope, S_h2C3E50, 32))

\* the documents whose sections vary, on a good and on a flat source
SectionScenarios ==
  { [cfg |-> TemplateConfig(FullStyle, ch @@ sk @@ ex @@ pr),
     content |-> Cnt(OneField, skp @@ exp @@ prp), fs |-> f] :
      ch \in Chrome, sk \in SkillsCfgs, ex \in ExperienceCfgs, pr \in ProjectsCfgs,
      skp \in SkillsPayloads, exp \in ExperiencePayloads, prp \in ProjectsPayloads,
      f \in { SourceAt(SvgPathOf(S_solid, S_envelope), SvgGood, TRUE),
              SourceAt(SvgPathOf(S_solid, S_envelope), SvgFlat, TRUE) } }

\* the documents whose contact fields, style and filesystem vary: skills is a
\* simple list with a title icon, experience names an unknown template
ContactScenarios ==
  { [cfg |-> TemplateConfig(st,
               ("header" :> SectionCfg("header", EmptyStr, NilStr, TRUE))
                 @@ ("contact" :> SectionCfg("contact", EmptyStr, NilStr, TRUE))
                 @@ ("skills" :> SectionCfg("simple_list", S_Skills, PtrTo(S_email), TRUE))
                 @@ ("experience" :> SectionCfg("grid", S_Work, NilStr, TRUE))),
     content |-> Cnt(fl, ("skills" :> VArr(<<VStr(S_Go), VStr(S_Rust)>>))
                           @@ ("experience" :> VMap([items |-> VArr(<<Entry1>>)]))),
     fs |-> f] :
      st \in Styles, fl \in ContactLists, f \in TemplateFs }

TemplateScenarios == SectionScenarios \cup ContactScenarios

TemplateNames == {"template-1", "template-2"}

\* main.go: a resume.json
PageTypes == {"skills", "experience", "education", "hobbies"}

PageTitle(type) ==
  CASE type = "skills" -> S_Skills [] type = "experience" -> S_Work
    [] type = "education" -> S_School [] OTHER -> S_Other

PageData(type) ==
  CASE type = "skills"     -> VMap([items |-> VArr(<<VStr(S_Go), VStr(S_Rust)>>)])
    [] type = "experience" -> VMap([items |-> VArr(<<Entry1, Entry2, Entry3>>)])
    [] type = "education"  -> VMap([items |-> VArr(<<Entry2>>)])
    [] OTHER               -> VMap([content |-> VStr(S_Go)])

Section(type, order, enabled) ==
  [Type |-> type, Title |-> PageTitle(type), Order |-> order, Enabled |-> enabled,
   Data |-> PageData(type)]

Orders == 1..3

\* the section lists of at most MaxSections sections of different types, at most
\* one of them disabled
PageSectionLists ==
  UNION { { [i \in 1..n |-> Section(ts[i], os[i], i # off)] :
              ts \in Arrangements(PageTypes, n),
              os \in [1..n -> Orders],
              off \in 0..n } :
          n \in 0..MaxSections }

PersonalInfo(name, email, phone, icons) ==
  [Name |-> name, email |-> email, phone |-> phone, address |-> EmptyStr, website |-> EmptyStr,
   github |-> EmptyStr, linkedin |-> EmptyStr, Icons |-> icons]

\* an e-mail with an icon of its own and a phone with the default icon; an
\* e-mail alone; nothing but the name
People ==
  { PersonalInfo(S_Jane, S_mail, S_555, ("email" :> S_envelope)),
    PersonalInfo(S_Jane, S_mail, EmptyStr, NoSections),
    PersonalInfo(S_Jane, EmptyStr, EmptyStr, NoSections) }

PageFs ==
  FsKinds(SvgPathOf(FaDir(S_solid), S_envelope), PathJoin(S_icons, S_envelope \o S_png))

ExampleSections ==
  <<Section("skills", 3, TRUE), Section("experience", 1, TRUE), Section("education", 2, TRUE)>>

PageScenarios ==
  { [resume |-> [PersonalInfo |-> p, Sections |-> ExampleSections], fs |-> f] :
      p \in People, f \in PageFs }
  \cup
  { [resume |-> [PersonalInfo |-> PersonalInfo(S_Jane, S_mail, S_555, ("email" :> S_envelope)),
                 Sections |-> s],
     fs |-> SourceAt(SvgPathOf(FaDir(S_solid), S_envelope), SvgGood, TRUE)] :
      s \in PageSectionLists }

-----------------------------------------------------------------------------
(* The composers as a state machine: one pass of one program over its      *)
(* inputs and the filesystem it finds                                      *)

InitCompose ==
  /\ \/ /\ prog = "template"
        /\ \E sc \in TemplateScenarios : cfg = sc.cfg /\ content = sc.content /\ fs = sc.fs
        /\ tmplName \in TemplateNames
        /\ tmplName = "template-1" \/ Len(content.ContactFields) = 0
        /\ resume = NoResume
     \/ /\ prog = "page"
        /\ \E sc \in PageScenarios : resume = sc.resume /\ fs = sc.fs
        /\ cfg = TemplateConfig(BareStyle, NoSections)
        /\ content = NoContent
        /\ tmplName = "template-1"
  /\ calls = <<>>
  /\ firstOK = NoFiles
  /\ edits = 0
  /\ pc = "ready"
  /\ out = NoOut
  /\ unit = NoUnit
  /\ procs = NoProcs

\* what a pass leaves: the rows reach the backend when no error is returned
Handed(r, f) ==
  [rows |-> IF r.err = "nil" THEN r.m.rows ELSE <<>>, err |-> r.err, icons |-> r.m.icons,
   rendered |-> r.m.rendered, pre |-> f,
   given |-> [cfg |-> cfg, content |-> content, resume |-> resume]]

\* part_000: main calls generatePDF(config, content, *templateName, *outputFile)
GeneratePDF ==
  /\ prog = "template"
  /\ pc = "ready"
  /\ LET r == generatePDF(fs, cfg, content, tmplName)
     IN /\ fs' = r.m.fs
        /\ out' = Handed(r, fs)
  /\ pc' = "done"
  /\ UNCHANGED <<prog, cfg, content, tmplName, resume, calls, firstOK, edits, unit, procs>>

\* main.go: main calls generatePDF(resume, style, *outputFile)
GeneratePage ==
  /\ prog = "page"
  /\ pc = "ready"
  /\ LET r == main_generatePDF(fs, resume, DefaultStyle)
     IN /\ fs' = r.m.fs
        /\ out' = Handed(r, fs)
  /\ resume' = ResumeAfterSort(resume)
  /\ pc' = "done"
  /\ UNCHANGED <<prog, cfg, content, tmplName, calls, firstOK, edits, unit, procs>>

NextCompose ==
  \/ GeneratePDF
  \/ GeneratePage

SpecCompose == InitCompose /\ [][NextCompose]_vars

-----------------------------------------------------------------------------
(* Properties of a composition pass *)

\* the pass is over and, in the template program, template-1 was asked for
Composed == pc = "done" /\ (prog = "page" \/ (prog = "template" /\ tmplName = "template-1"))

RowsOf(rows, key) == SelectSeq(rows, LAMBDA r : r.key = key)

PartRows(rows, part) == SelectSeq(rows, LAMBDA r : r.part = part)

Count(seq, x) == Cardinality({ i \in 1..Len(seq) : seq[i] = x })

\* a call that went into the conversion and did not come out with a raster
Failed(call) == call.err \notin {"nil", "none"}

TextOnly(col, txt) ==
  Len(col.comps) = 1 /\ col.comps[1].kind = "text" /\ col.comps[1].text = txt

\* template-1: the column of contact field j, three columns to a row
FieldCol(j) == PartRows(out.rows, "contact")[((j - 1) \div 3) + 1].cols[((j - 1) % 3) + 1]

Registered == {"simple_list", "entry_list"}

\* template-1: the keys of its list whose section is enabled, has a payload and
\* names a template with a renderer
Selected(c, cnt) ==
  SelectSeq(sectionOrder,
            LAMBDA k : /\ k \in DOMAIN c.Sections
                       /\ c.Sections[k].Enabled
                       /\ k \in DOMAIN cnt.Sections
                       /\ c.Sections[k].Template \in Registered)

\* template-1: every contact field has its column and every selected section its title row
AllComposed ==
  LET n == Len(content.ContactFields)
      contactRows == PartRows(out.rows, "contact")
  IN /\ out.rendered = Selected(cfg, content)
     /\ \A i \in 1..Len(out.rendered) :
          LET t == PartRows(RowsOf(out.rows, out.rendered[i]), "title")
          IN /\ Len(t) = 1
             /\ t[1].cols[Len(t[1].cols)].comps[1].text = cfg.Sections[out.rendered[i]].Title
     /\ SectionCfgOf(cfg, "contact").Enabled =>
          /\ Len(contactRows) = (n + 2) \div 3
          /\ \A j \in 1..n :
               LET field == content.ContactFields[j]
                   col   == FieldCol(j)
                   txt   == ResolveTemplate(field.Content, content)
               IN IF txt = EmptyStr THEN col.comps = <<>>
                  ELSE /\ col.comps # <<>>
                       /\ col.comps[Len(col.comps)].kind = "text"
                       /\ col.comps[Len(col.comps)].text = txt

\* main.go: every contact with a text has its row and every enabled section of a
\* registered type its title row
AllComposedPage ==
  /\ \A i \in 1..Len(ContactKeys) :
       LET key == ContactKeys[i]
           rs  == RowsOf(out.rows, key)
       IN IF resume.PersonalInfo[key] = EmptyStr THEN rs = <<>>
          ELSE /\ Len(rs) = 1
               /\ rs[1].cols[Len(rs[1].cols)].comps[1].text = resume.PersonalInfo[key]
  /\ \A i \in 1..Len(resume.Sections) :
       LET s == resume.Sections[i]
       IN (s.Enabled /\ s.Type \in DOMAIN createSectionRegistry)
            => /\ Count(out.rendered, s) = 1
               /\ Len(PartRows(RowsOf(out.rows, s.Type), "title")) = 1

TypesOf(sections) == [i \in 1..Len(sections) |-> sections[i].Type]

\* C4: main.go renders the sections in ascending order of Order; a rendered
\* section is a section of the input and is rendered once; the title rows are
\* the rendered sections', in that sequence; Order 3, 1, 2 for skills,
\* experience, education gives experience, education, skills.
C4_SectionOrdering ==
  (pc = "done" /\ prog = "page") =>
    LET R      == out.rendered
        titles == PartRows(out.rows, "title")
    IN /\ \A i, j \in 1..Len(R) : i < j => R[i].Order <= R[j].Order
       /\ \A i, j \in 1..Len(R) : i # j => R[i] # R[j]
       /\ \A i \in 1..Len(R) : \E k \in 1..Len(resume.Sections) : resume.Sections[k] = R[i]
       /\ Len(titles) = Len(R)
       /\ \A i \in 1..Len(R) :
            titles[i].key = R[i].Type /\ titles[i].cols[1].comps[1].text = R[i].Title
       /\ resume.Sections = ExampleSections
            => TypesOf(R) = <<"experience", "education", "skills">>

\* the pass over the example: the input order is not the rendered order
C4_Witness ==
  /\ pc = "done" /\ prog = "page"
  /\ TypesOf(resume.Sections) = <<"skills", "experience", "education">>
  /\ [i \in 1..3 |-> resume.Sections[i].Order] = <<3, 1, 2>>
  /\ TypesOf(out.rendered) = <<"experience", "education", "skills">>
  /\ [i \in 1..3 |-> PartRows(out.rows, "title")[i].key] = <<"experience", "education", "skills">>

\* main.go: the resume without the sections whose type has no renderer
KnownResume ==
  [resume EXCEPT !.Sections = SelectSeq(@, LAMBDA s : s.Type \in DOMAIN createSectionRegistry)]

\* template-1: the keys of the configured sections that name a template without a renderer
UnknownKeys ==
  { k \in DOMAIN cfg.Sections \ {"header", "contact"} : cfg.Sections[k].Template \notin Registered }

\* template-1: the config without them
KnownCfg ==
  [cfg EXCEPT !.Sections = [k \in DOMAIN cfg.Sections \ UnknownKeys |-> cfg.Sections[k]]]

\* C5: a section whose type (main.go) or template (template-1) has no renderer
\* adds no row and no error is returned; each section that has a renderer adds
\* the rows it adds when the pass runs, on the same filesystem, over the input
\* without the unknown sections.
C5_UnknownTypeTag ==
  Composed =>
    /\ out.err = "nil"
    /\ prog = "page" =>
         LET alone == main_generatePDF(out.pre, KnownResume, DefaultStyle).m.rows
         IN \A i \in 1..Len(resume.Sections) :
              LET type == resume.Sections[i].Type
              IN IF type \in DOMAIN createSectionRegistry
                   THEN RowsOf(out.rows, type) = RowsOf(alone, type)
                   ELSE RowsOf(out.rows, type) = <<>>
    /\ prog = "template" =>
         LET alone == generatePDF(out.pre, KnownCfg, content, tmplName).m.rows
         IN \A k \in DOMAIN cfg.Sections \ {"header", "contact"} :
              IF k \in UnknownKeys THEN RowsOf(out.rows, k) = <<>>
              ELSE RowsOf(out.rows, k) = RowsOf(alone, k)

\* an enabled section of the type hobbies, ordered between two enabled sections
\* that are rendered
C5_Witness ==
  /\ pc = "done" /\ prog = "page"
  /\ \E h, a, b \in 1..Len(resume.Sections) :
       /\ resume.Sections[h].Type = "hobbies" /\ resume.Sections[h].Enabled
       /\ resume.Sections[a].Order < resume.Sections[h].Order
       /\ resume.Sections[h].Order < resume.Sections[b].Order
       /\ RowsOf(out.rows, resume.Sections[a].Type) # <<>>
       /\ RowsOf(out.rows, resume.Sections[b].Type) # <<>>
  /\ RowsOf(out.rows, "hobbies") = <<>>

\* C6: every configured section, whatever its key, is rendered once (one title
\* row, its renderer run once) when it is enabled, has a payload and names a
\* template with a renderer; a section that is disabled or has no payload adds
\* no row.
C6_SectionSelection ==
  (Composed /\ prog = "template") =>
    \A k \in DOMAIN cfg.Sections \ {"header", "contact"} :
      /\ (/\ cfg.Sections[k].Enabled
          /\ k \in DOMAIN content.Sections
          /\ cfg.Sections[k].Template \in Registered)
           => /\ Count(out.rendered, k) = 1
              /\ Len(PartRows(RowsOf(out.rows, k), "title")) = 1
      /\ (~cfg.Sections[k].Enabled \/ k \notin DOMAIN content.Sections)
           => RowsOf(out.rows, k) = <<>>

\* the payload is {items: [s1, ..., sn]} with n >= 1 and every item a string
IsItemsOfStrings(data) ==
  /\ data.t = "map"
  /\ IsArrayAt(data, "items")
  /\ Len(data.m["items"].a) >= 1
  /\ \A i \in 1..Len(data.m["items"].a) : data.m["items"].a[i].t = "string"

\* C7: a rendered simple_list section whose payload is {items: [s1, ..., sn]},
\* n >= 1 strings, adds its title row and then one body row, whose text is the
\* items joined with " | " in their order.
C7_SimpleDelimitedList ==
  (Composed /\ prog = "template") =>
    \A i \in 1..Len(out.rendered) :
      LET k    == out.rendered[i]
          rows == RowsOf(out.rows, k)
      IN (cfg.Sections[k].Template = "simple_list" /\ IsItemsOfStrings(content.Sections[k]))
           => /\ Len(rows) = 2
              /\ rows[1].part = "title"
              /\ rows[2].part = "body"
              /\ rows[2].cols[1].comps[1].text
                   = StringsJoin(StringsOf(content.Sections[k].m["items"].a), S_sep)

-----------------------------------------------------------------------------
(* Properties of the contact block of template-1 (SpecCompose) *)

Min(a, b) == IF a <= b THEN a ELSE b
Max(a, b) == IF a >= b THEN a ELSE b

ContactPass ==
  Composed /\ prog = "template" /\ SectionCfgOf(cfg, "contact").Enabled

ContactRows == PartRows(out.rows, "contact")

\* the texts of the columns of a row that hold something, in column order
TextsOf(row) ==
  LET full == SelectSeq(row.cols, LAMBDA c : c.comps # <<>>)
  IN [p \in 1..Len(full) |-> full[p].comps[Len(full[p].comps)].text]

\* the texts of the fields of group k (fields 3k-2, 3k-1, 3k of the list, counted
\* from 1) that have a text, in list order
GroupTexts(k) ==
  LET n    == Len(content.ContactFields)
      last == Min(3 * k, n)
      all  == [p \in 1..(last - 3 * (k - 1)) |->
                 ResolveTemplate(content.ContactFields[3 * (k - 1) + p].Content, content)]
  IN SelectSeq(all, LAMBDA t : t # EmptyStr)

\* C16: for a contact-field list of length n the contact block emits at most
\* ceil(n/3) rows, none of more than three columns; row k holds the fields 3k,
\* 3k+1, 3k+2 (counted from 0) that exist, in list order, and nothing else, so
\* that no field is in two rows.
C16_ContactGrouping ==
  ContactPass =>
    LET n == Len(content.ContactFields)
    IN /\ Len(ContactRows) <= (n + 2) \div 3
       /\ \A k \in 1..Len(ContactRows) :
            /\ Len(ContactRows[k].cols) <= 3
            /\ Len(ContactRows[k].cols) <= n - 3 * (k - 1)
            /\ TextsOf(ContactRows[k]) = GroupTexts(k)
       /\ \A k \in (Len(ContactRows) + 1)..((n + 2) \div 3) : GroupTexts(k) = <<>>

\* four fields with a text: a row of three columns and a row of one
C16_Witness ==
  /\ ContactPass
  /\ Len(content.ContactFields) = 4
  /\ Len(ContactRows) = 2
  /\ Len(TextsOf(ContactRows[1])) = 3
  /\ Len(ContactRows[2].cols) = 1
  /\ TextsOf(ContactRows[2]) = <<ResolveTemplate(content.ContactFields[4].Content, content)>>

\* the fields of group k, as indices of the list
GroupOf(k) == { j \in 1..Len(content.ContactFields) : (j - 1) \div 3 = k - 1 }

IsEmptyField(j) == ResolveTemplate(content.ContactFields[j].Content, content) = EmptyStr

\* the groups with at least one field that has a text
FilledGroups ==
  { k \in 1..((Len(content.ContactFields) + 2) \div 3) : \E j \in GroupOf(k) : ~IsEmptyField(j) }

\* C17: a contact field whose text is empty after the substitution adds no
\* column to its row, and a group of fields that are all empty adds no row:
\* there is one row for each group with a text, of as many columns as the group
\* has fields with a text.
C17_BlankContactFields ==
  ContactPass =>
    /\ Len(ContactRows) = Cardinality(FilledGroups)
    /\ \A k \in 1..Len(ContactRows) :
         Len(ContactRows[k].cols) = Len(TextsOf(ContactRows[k]))

-----------------------------------------------------------------------------
(* Properties of the entry-list renderers (SpecCompose) *)

\* the field is there: a string, and in main.go, which reads a missing field
\* as "", a string that is not empty
EntryPresent(item, k) ==
  IsStringAt(item, k) /\ (prog = "page" => item.m[k].s # EmptyStr)

Line(kind, txt) == [kind |-> kind, text |-> txt]

\* the rows C23 states for one item: heading, location and dates, bullets
ExpectedEntry(item) ==
  LET head == IF EntryPresent(item, "title") /\ EntryPresent(item, "company")
                THEN <<Line("head", item.m["title"].s \o <<" ","-"," ">> \o item.m["company"].s)>>
              ELSE IF EntryPresent(item, "degree") /\ EntryPresent(item, "institution")
                THEN <<Line("head", item.m["degree"].s \o <<" ","-"," ">>
                                      \o item.m["institution"].s)>>
              ELSE <<>>
      loc  == IF \/ EntryPresent(item, "location")
                 \/ EntryPresent(item, "start_date")
                 \/ EntryPresent(item, "end_date")
                THEN <<Line("loc", EmptyStr)>> ELSE <<>>
      desc == IF IsArrayAt(item, "description")
                THEN SelectSeq(item.m["description"].a, LAMBDA d : d.t = "string")
                ELSE <<>>
  IN head \o loc \o [i \in 1..Len(desc) |-> Line("bullet", desc[i].s)]

RECURSIVE ExpectedEntries(_, _)
ExpectedEntries(items, i) ==
  IF i > Len(items) THEN <<>> ELSE ExpectedEntry(items[i]) \o ExpectedEntries(items, i + 1)

\* the items of a payload: the objects of the array at "items"
PayloadItems(data) ==
  IF data.t = "map" /\ IsArrayAt(data, "items")
    THEN SelectSeq(data.m["items"].a, LAMBDA x : x.t = "map")
    ELSE <<>>

\* a row is the stated line: the heading by its text, the location line by its
\* italic style, a bullet by the string after its two-character mark
IsLine(row, line) ==
  LET comp == row.cols[1].comps[1]
  IN /\ Len(row.cols) = 1
     /\ comp.kind = "text"
     /\ CASE line.kind = "head" -> comp.text = line.text /\ comp.style # "italic"
          [] line.kind = "loc"  -> comp.style = "italic"
          [] OTHER -> /\ comp.style = "normal"
                      /\ Len(comp.text) = Len(line.text) + 2
                      /\ SubSeq(comp.text, 3, Len(comp.text)) = line.text

\* the rows of a section are its title row and then the stated lines of its payload
EntryRowsMatch(rows, data) ==
  LET body  == PartRows(rows, "body")
      lines == ExpectedEntries(PayloadItems(data), 1)
  IN /\ Len(PartRows(rows, "title")) = 1
     /\ rows[1].part = "title"
     /\ Len(rows) = 1 + Len(body)
     /\ Len(body) = Len(lines)
     /\ \A i \in 1..Len(lines) : IsLine(body[i], lines[i])

\* template-1: the sections rendered by buildEntryListSection
EntryListTemplate1 ==
  (Composed /\ prog = "template") =>
    \A i \in 1..Len(out.rendered) :
      cfg.Sections[out.rendered[i]].Template = "entry_list"
        => EntryRowsMatch(RowsOf(out.rows, out.rendered[i]), content.Sections[out.rendered[i]])

\* main.go: the sections rendered by ExperienceSection.Render
EntryListPage ==
  (Composed /\ prog = "page") =>
    \A i \in 1..Len(out.rendered) :
      out.rendered[i].Type = "experience"
        => EntryRowsMatch(RowsOf(out.rows, "experience"), out.rendered[i].Data)

\* C23: after the title row the entry-list renderer emits for each item, in
\* item order, a heading "title - company" iff both are present, otherwise
\* "degree - institution" iff both are present, then a location and dates line
\* iff a location, a start or an end date is present, then one bullet row for
\* each description string in order; an item with none of these emits nothing
\* and a payload without items only the title row.
C23_EntryListRendering == EntryListTemplate1 /\ EntryListPage

-----------------------------------------------------------------------------
(* The style resolver and the raster arithmetic as a state machine: one     *)
(* call of one function on one input                                        *)

MaxBox  == 6
MaxSize == 6

S_34495E == <<"3","4","4","9","5","E">>

\* two characters of a colour string: digits, both cases, characters that are
\* no hexadecimal digits
HexPairs ==
  { <<"0","0">>, <<"2","C">>, <<"3","E">>, <<"5","0">>, <<"f","f">>, <<"a","B">>,
    <<"5","G">>, <<"Z","Z">>, <<"#","1">> }

\* strings of six characters, shorter and longer ones, each with and without '#'
HexInputs ==
  LET six  == { a \o b \o c : a, b, c \in HexPairs }
      cut  == { SubSeq(x, 1, n) : x \in {S_2C3E50, <<"Z","Z","Z","Z","Z","Z">>}, n \in 0..5 }
      long == { S_2C3E50 \o <<"0">>, S_2C3E50 \o S_2C3E50 }
      bare == six \cup cut \cup long
  IN bare \cup { <<"#">> \o x : x \in bare }

\* no palette; the palette of the example; an entry whose value is a key; a
\* key that reads as a colour
UnitPalettes ==
  { NoSections,
    (S_secondary :> S_h34495E),
    (S_primary :> S_secondary) @@ (S_secondary :> S_h34495E),
    (S_34495E :> S_h2C3E50) }

UnitColorNames == {S_secondary, S_primary, S_34495E, S_h34495E, S_accent, EmptyStr}

\* view boxes with sides up to MaxBox and the ones of the icon sets
ViewBoxes ==
  ((1..MaxBox) \X (1..MaxBox)) \cup {<<512, 512>>, <<512, 448>>, <<576, 512>>, <<640, 10>>}

RasterSizes == (1..MaxSize) \cup IconSizes

UnitCall(fn, args) == [fn |-> fn, args |-> args, ret |-> <<>>]

UnitCalls ==
  { UnitCall(fn, <<h>>) : fn \in {"HexToColor", "hexToColor"}, h \in HexInputs }
  \cup { UnitCall("ResolveColor", <<n, p>>) : n \in UnitColorNames, p \in UnitPalettes }
  \cup { UnitCall("RasterDims", <<b[1], b[2], z>>) : b \in ViewBoxes, z \in RasterSizes }
  \cup { UnitCall("sort", <<l>>) : l \in PageSectionLists }

InitUnits ==
  /\ prog = "units"
  /\ unit \in UnitCalls
  /\ cfg = TemplateConfig(BareStyle, NoSections)
  /\ content = NoContent
  /\ tmplName = EmptyStr
  /\ resume = NoResume
  /\ fs = EmptyFs
  /\ calls = <<>>
  /\ firstOK = NoFiles
  /\ edits = 0
  /\ pc = "ready"
  /\ out = NoOut
  /\ procs = NoProcs

Return(v) ==
  /\ unit' = [unit EXCEPT !.ret = v]
  /\ pc' = "done"
  /\ UNCHANGED <<prog, cfg, content, tmplName, resume, fs, calls, firstOK, edits, out, procs>>

CallHexToColor ==
  /\ prog = "units" /\ pc = "ready" /\ unit.fn = "HexToColor"
  /\ Return(HexToColor(unit.args[1]))

CallhexToColor ==
  /\ prog = "units" /\ pc = "ready" /\ unit.fn = "hexToColor"
  /\ Return(hexToColor(unit.args[1]))

CallResolveColor ==
  /\ prog = "units" /\ pc = "ready" /\ unit.fn = "ResolveColor"
  /\ Return(ResolveColor(unit.args[1], unit.args[2]))

\* convertSVGToPNG up to the allocation of the pixel buffer
CallRasterDims ==
  /\ prog = "units" /\ pc = "ready" /\ unit.fn = "RasterDims"
  /\ Return(RasterDims(unit.args[1], unit.args[2], unit.args[3]))

\* buildResumePage from the copy of the section list to the end of the sort
CallSortSections ==
  /\ prog = "units" /\ pc = "ready" /\ unit.fn = "sort"
  /\ Return(SortedSections(unit.args[1]))

NextUnits ==
  \/ CallHexToColor
  \/ CallhexToColor
  \/ CallResolveColor
  \/ CallRasterDims
  \/ CallSortSections

SpecUnits == InitUnits /\ [][NextUnits]_vars

-----------------------------------------------------------------------------
(* Properties of the style resolver and of the raster arithmetic (SpecUnits) *)

Returned(fn) == prog = "units" /\ pc = "done" /\ unit.fn = fn

\* n is p/q rounded to the nearest integer (either neighbour at a tie)
IsNearest(n, p, q) == 2 * q * n - q <= 2 * p /\ 2 * p <= 2 * q * n + q

\* C12: for a view box W x H and a size s the larger raster dimension is s and the
\* smaller one is s*min(W,H)/max(W,H) rounded to the nearest integer; 512x448
\* at 64 gives 64x56.
C12_RasterDimensions ==
  Returned("RasterDims") =>
    LET W == unit.args[1]
        H == unit.args[2]
        z == unit.args[3]
        d == unit.ret
    IN /\ Max(d.w, d.h) = z
       /\ IsNearest(Min(d.w, d.h), z * Min(W, H), Max(W, H))
       /\ (W >= H) = (d.w >= d.h) \/ d.w = d.h
       /\ (W = 512 /\ H = 448 /\ z = 64) => (d.w = 64 /\ d.h = 56)

\* C21: for every view box with W >= 1 and H >= 1 and every size s >= 1 both
\* raster dimensions are at least 1 pixel, also for a view box so elongated
\* that s*min(W,H) < max(W,H).
C21_NonDegenerateRaster ==
  (Returned("RasterDims") /\ unit.args[1] >= 1 /\ unit.args[2] >= 1 /\ unit.args[3] >= 1)
    => (unit.ret.w >= 1 /\ unit.ret.h >= 1)

\* the value of a hexadecimal digit, by its place among the sixteen digits
Nibble(ch) ==
  CHOOSE n \in 0..15 :
    ch \in { <<"0","1","2","3","4","5","6","7","8","9","a","b","c","d","e","f">>[n + 1],
             <<"0","1","2","3","4","5","6","7","8","9","A","B","C","D","E","F">>[n + 1] }

Black == Color(0, 0, 0)

\* C13: for every string that, one leading '#' stripped, is not exactly six
\* hexadecimal digits (another length, or six characters of which one is no
\* hexadecimal digit), the conversion returns black (0,0,0).
C13_InvalidHexIsBlack ==
  (Returned("HexToColor") \/ Returned("hexToColor")) =>
    (~IsSixHex(TrimPrefix(unit.args[1], "#")) => unit.ret = Black)

\* C14: for every string of exactly six hexadecimal digits d0..d5, in either
\* case, with or without one leading '#', the conversion returns
\* (16*d0+d1, 16*d2+d3, 16*d4+d5), each component in 0..255; "2C3E50" gives
\* (44,62,80).
C14_ValidHex ==
  (Returned("HexToColor") \/ Returned("hexToColor")) =>
    LET h == TrimPrefix(unit.args[1], "#")
    IN /\ IsSixHex(h) =>
            /\ unit.ret = Color(16 * Nibble(h[1]) + Nibble(h[2]),
                                16 * Nibble(h[3]) + Nibble(h[4]),
                                16 * Nibble(h[5]) + Nibble(h[6]))
            /\ unit.ret.Red \in 0..255 /\ unit.ret.Green \in 0..255 /\ unit.ret.Blue \in 0..255
       /\ h = S_2C3E50 => unit.ret = Color(44, 62, 80)

\* the conversion of "#aBff2C": both cases and the leading '#'
C14_Witness ==
  /\ Returned("HexToColor")
  /\ unit.args[1] = <<"#","a","B","f","f","2","C">>
  /\ unit.ret = Color(171, 255, 44)

\* C15: a name that is a key of the palette resolves to the conversion of that
\* entry's value, also when the value is itself a key of the palette; any other
\* name resolves to the conversion of the name itself; "secondary" under
\* {secondary: "#34495E"} and "34495E" under the empty palette are the same colour.
C15_OneIndirection ==
  Returned("ResolveColor") =>
    LET name    == unit.args[1]
        palette == unit.args[2]
    IN /\ name \in DOMAIN palette => unit.ret = HexToColor(palette[name])
       /\ name \notin DOMAIN palette => unit.ret = HexToColor(name)
       /\ (name = S_secondary /\ palette = (S_secondary :> S_h34495E))
            => unit.ret = Color(52, 73, 94)
       /\ (name = S_34495E /\ palette = NoSections) => unit.ret = Color(52, 73, 94)

\* "primary" under {primary: "secondary", secondary: "#34495E"}: the entry's
\* value is a key and is converted as it stands, which gives black
C15_Witness ==
  /\ Returned("ResolveColor")
  /\ unit.args[1] = S_primary
  /\ {S_primary, S_secondary} \subseteq DOMAIN unit.args[2]
  /\ unit.args[2][S_primary] = S_secondary
  /\ unit.ret = Black
  /\ HexToColor(unit.args[2][S_secondary]) # Black

-----------------------------------------------------------------------------
(* EnsureColoredIconExists run by concurrent processes on one cache         *)
(* directory: every system call and every local stage is a step             *)

NumProcs == 2

Procs == 1..NumProcs

\* the key all processes ask for
RaceKey == S_email

RacePath == RequestPath(RaceKey)

RaceColor == IconColorHex(cfg.Icons, cfg.Colors)

Proc(pcp) ==
  [pc |-> pcp, dir |-> 1, src |-> EmptyStr, ret |-> EmptyStr, err |-> "none",
   hit |-> FALSE, partial |-> FALSE, peerEncoding |-> FALSE, afterEncode |-> FALSE]

InitRace ==
  /\ prog = "race"
  /\ cfg \in IconOnlyConfigs
  /\ fs \in FsKinds(SvgPathOf(S_solid, S_envelope), PngPath(S_icons, S_envelope, S_h2C3E50, 32))
  /\ procs = [p \in Procs |-> Proc("stat")]
  /\ content = NoContent
  /\ tmplName = EmptyStr
  /\ resume = NoResume
  /\ calls = <<>>
  /\ firstOK = NoFiles
  /\ edits = 0
  /\ pc = "ready"
  /\ out = NoOut
  /\ unit = NoUnit

Others == <<prog, cfg, content, tmplName, resume, calls, firstOK, edits, pc, out, unit>>

Finish(p, path, err) ==
  procs' = [procs EXCEPT ![p].pc = "done", ![p].ret = path, ![p].err = err]

Goto(p, pcp) == procs' = [procs EXCEPT ![p].pc = pcp]

\* a creation under a side name, the final name given when the encoding is over
Create_Temp(f, pngPath, file) ==
  [f EXCEPT !.cache = ((pngPath \o <<".","t","m","p">>) :> file) @@ @]

\* os.Create(pngPath): from now on the file is there, without content
Create(f, pngPath, file) == [f EXCEPT !.cache = (pngPath :> file) @@ @]

\* EnsureColoredIconExists: os.Stat(pngPath)
StatCache(p) ==
  /\ procs[p].pc = "stat"
  /\ LET found == FileExists(fs.cache, RacePath)
     IN procs' = [procs EXCEPT
          ![p].pc      = IF found THEN "done" ELSE "mkdir",
          ![p].ret     = IF found THEN RacePath ELSE EmptyStr,
          ![p].hit     = found,
          ![p].partial = found /\ ~fs.cache[RacePath].complete,
          ![p].peerEncoding = \E q \in Procs \ {p} : procs[q].pc = "encode",
          ![p].afterEncode  = \E q \in Procs \ {p} :
                                 procs[q].pc = "done" /\ procs[q].err = "nil"]
  /\ UNCHANGED fs

\* convertColoredIcon: os.MkdirAll(outputDir)
MakeDir(p) ==
  /\ procs[p].pc = "mkdir"
  /\ fs' = MkdirAll(fs)
  /\ Goto(p, "search")

\* convertColoredIcon: os.Stat(fullSvgPath) for the next directory of the list
StatSource(p) ==
  /\ procs[p].pc = "search"
  /\ LET i    == procs[p].dir
         dirs == cfg.Icons.SVGPaths
         stem == cfg.Icons.Mappings[RaceKey]
     IN IF i > Len(dirs) THEN Finish(p, EmptyStr, "notfound")
        ELSE IF FileExists(fs.src, SvgPathOf(dirs[i], stem))
          THEN procs' = [procs EXCEPT ![p].pc = "read", ![p].src = SvgPathOf(dirs[i], stem)]
        ELSE procs' = [procs EXCEPT ![p].dir = i + 1]
  /\ UNCHANGED fs

\* convertSVGToPNG: os.ReadFile(svgPath)
ReadSource(p) ==
  /\ procs[p].pc = "read"
  /\ IF fs.src[procs[p].src].readable THEN Goto(p, "raster") ELSE Finish(p, EmptyStr, "read")
  /\ UNCHANGED fs

\* convertSVGToPNG: the parse, the dimensions, the pixel buffer and the drawing
Rasterize(p) ==
  /\ procs[p].pc = "raster"
  /\ IF fs.src[procs[p].src].wellformed THEN Goto(p, "create") ELSE Finish(p, EmptyStr, "parse")
  /\ UNCHANGED fs

\* the raster a process writes: its source at the configured size and colour
RasterOf(p, done) ==
  LET src == fs.src[procs[p].src]
  IN RasterFile(done, procs[p].src, src, AppliedFill(RaceColor),
                RasterDims(src.W, src.H, cfg.Icons.DefaultSize))

\* convertSVGToPNG: os.Create(pngPath)
CreateFile(p) ==
  /\ procs[p].pc = "create"
  /\ IF fs.outdir /\ fs.writable
       THEN fs' = Create(fs, RacePath, RasterOf(p, FALSE)) /\ Goto(p, "encode")
       ELSE UNCHANGED fs /\ Finish(p, EmptyStr, "create")

\* convertSVGToPNG: png.Encode(outFile, img) and the return of the path
Encode(p) ==
  /\ procs[p].pc = "encode"
  /\ IF EncodeFails(RasterOf(p, TRUE))
       THEN UNCHANGED fs /\ Finish(p, EmptyStr, "encode")
       ELSE /\ fs' = [fs EXCEPT !.cache = (RacePath :> RasterOf(p, TRUE)) @@ @]
            /\ Finish(p, RacePath, "nil")

NextRace ==
  /\ prog = "race"
  /\ \E p \in Procs :
       \/ StatCache(p)
       \/ MakeDir(p)
       \/ StatSource(p)
       \/ ReadSource(p)
       \/ Rasterize(p)
       \/ CreateFile(p)
       \/ Encode(p)
  /\ UNCHANGED Others

SpecRace == InitRace /\ [][NextRace]_vars

-----------------------------------------------------------------------------
(* Properties of the concurrent pipeline (SpecRace) *)

\* C18: nothing keeps a process from taking a raster another process is still
\* writing for a cache hit: a process that stats the cache path while another
\* one is between os.Create and the end of png.Encode finds the file and returns
\* its path, and unless some process had already finished an encoding the file
\* it returns is a partial raster.
C18_CacheRace ==
  prog = "race" =>
    \A p \in Procs :
      procs[p].peerEncoding =>
        /\ procs[p].hit
        /\ procs[p].pc = "done"
        /\ procs[p].ret = RacePath
        /\ procs[p].err = "none"
        /\ ~procs[p].afterEncode => procs[p].partial

\* no file at the cache path to begin with; one process has created it and
\* not encoded it yet, the other has returned its path as a cache hit
C18_Witness ==
  /\ prog = "race"
  /\ \E p, q \in Procs :
       /\ p # q
       /\ procs[q].pc = "encode"
       /\ procs[p].pc = "done" /\ procs[p].hit /\ procs[p].partial
       /\ procs[p].ret = RacePath
       /\ FileExists(fs.cache, RacePath) /\ ~fs.cache[RacePath].complete

\* C22: the exchange sort ends with the list in ascending order of Order and a
\* permutation of its input (every section of the input once, nothing else);
\* it is not stable, which the witness shows on an input.
C22_SortCorrect ==
  Returned("sort") =>
    LET input  == unit.args[1]
        sorted == unit.ret
    IN /\ Len(sorted) = Len(input)
       /\ \A i, j \in 1..Len(sorted) : i < j => sorted[i].Order <= sorted[j].Order
       /\ \A i \in 1..Len(input) : Count(sorted, input[i]) = Count(input, input[i])
       /\ \A i \in 1..Len(sorted) : Count(input, sorted[i]) = Count(sorted, sorted[i])

\* the place of section x in the list s
PlaceOf(s, x) == CHOOSE i \in 1..Len(s) : s[i] = x

\* two sections of equal Order that the sort leaves in the opposite order:
\* Order 2, 2, 1 for a, b, c comes out as c, b, a
C22_Witness ==
  /\ Returned("sort")
  /\ Len(unit.ret) = Len(unit.args[1])
  /\ \E i, j \in 1..Len(unit.args[1]) :
       /\ i < j
       /\ unit.args[1][i].Order = unit.args[1][j].Order
       /\ \E k \in 1..Len(unit.ret) : unit.ret[k] = unit.args[1][i]
       /\ \E k \in 1..Len(unit.ret) : unit.ret[k] = unit.args[1][j]
       /\ PlaceOf(unit.ret, unit.args[1][i]) > PlaceOf(unit.ret, unit.args[1][j])

====
